---- MODULE Spec2Model ----
(***************************************************************************)
(* Model of BitcoinCoreWallet (src/src/wallets/bitcoin_core_wallet.cpp):   *)
(* the container parser, the password oracle, the private-key decryptor    *)
(* and recover_wallet.                                                     *)
(*                                                                         *)
(* Byte strings are abstract: a byte string is a record [val, len] whose   *)
(* len is its exact length in bytes (all length arithmetic of the code is  *)
(* kept) and whose val is a token naming its content.  A token is a        *)
(* 4-tuple <<kind, a, b, n>> so that any two tokens can be compared.       *)
(*                                                                         *)
(* A wallet file is abstract too: its size in bytes, whether its first     *)
(* four bytes are a Berkeley DB magic number, and the places where the     *)
(* four-byte markers "mkey" / "ckey" occur, each with the bytes that       *)
(* follow it.  All other bytes are bytes that match no marker.             *)
(***************************************************************************)
EXTENDS Integers, Sequences, FiniteSets, TLC

(***************************************************************************)
(* Bounds of the model.                                                    *)
(***************************************************************************)
MaxMKeys == 2
MaxCKeys == 2
MaxLoads == 2
NumThreads == 2
MaxCalls == 3

(***************************************************************************)
(* Program constants.                                                      *)
(***************************************************************************)
PageSize == 1024
BDBHeaderSize == 16
ScanTail == 32
MarkerLen == 4
AESBlock == 16
KeyLen == 32
DefaultIterations == 25000
SaltLen == 8
MKeyEnd == 56
MKeyGuard == 64
PubKeyLen == 33
CKeyEnd == 81
CKeyGuard == 80

Min(a, b) == IF a < b THEN a ELSE b

(***************************************************************************)
(* Only({e(x) : x \in {v}}) is LET x == v IN e(x), with v evaluated once   *)
(* however often e uses x.                                                 *)
(***************************************************************************)
Only(S) == CHOOSE x \in S : TRUE

Passwords == {"correct", "wrong", "other"}

(***************************************************************************)
(* Byte strings.                                                           *)
(***************************************************************************)
Bytes(val, len) == [val |-> val, len |-> len]
Garbage == <<"garbage", "", "", 0>>
NoBytes == Bytes(<<"empty", "", "", 0>>, 0)

(***************************************************************************)
(* derive_key: PBKDF2-HMAC-SHA512 to 32 bytes.  The derived key is a       *)
(* token of all three inputs, so different inputs give different keys.     *)
(***************************************************************************)
derive_key(password, salt, iterations) ==
    Bytes(<<"pbkdf2", password, salt.val[2], iterations>>, KeyLen)

(***************************************************************************)
(* An encrypted blob as the parser captures it: len bytes, the leading 16  *)
(* being the IV and the rest AES-256-CBC ciphertext.                       *)
(*   k       : token of the key the ciphertext was produced with           *)
(*   pt      : token of the plaintext under k                              *)
(*   pad     : under k, the number n in 1..16 such that the last n         *)
(*             plaintext bytes of the captured ciphertext all equal n      *)
(*             (valid PKCS#7 padding), or 0 when there is no such n        *)
(*   collide : tokens of other keys under which the last plaintext byte    *)
(*             happens to be 0x01 (a wrong key gives pseudo-random         *)
(*             plaintext, which ends in valid padding for about one key    *)
(*             in 256)                                                     *)
(*                                                                         *)
(* EVP_Decrypt models the EVP_DecryptInit_ex / EVP_DecryptUpdate /         *)
(* EVP_DecryptFinal_ex sequence both decrypt functions run, with padding   *)
(* enabled (OpenSSL's default): Update returns all blocks but the last,    *)
(* Final checks and strips the padding of the last block and fails when it *)
(* is not valid.  On failure the output buffer keeps the size it was       *)
(* resized to before decryption.                                           *)
(***************************************************************************)
PadUnder(key, blob) ==
    IF key.val = blob.k THEN blob.pad
    ELSE IF key.val \in blob.collide THEN 1
    ELSE 0

EVP_Decrypt(key, blob) ==
    LET encrypted_len == blob.len - AESBlock
        pad == PadUnder(key, blob)
        len == encrypted_len - AESBlock
        final_len == AESBlock - pad
    IN  IF pad = 0
        THEN [success |-> FALSE, out |-> Bytes(Garbage, blob.len)]
        ELSE [success |-> TRUE,
              out |-> Bytes(IF key.val = blob.k THEN blob.pt ELSE Garbage,
                            len + final_len)]

(***************************************************************************)
(* decrypt_master_key                                                      *)
(***************************************************************************)
decrypt_master_key(password, master_key) ==
    LET derived_key == derive_key(password, master_key.salt,
                                  master_key.derive_iterations)
    IN  IF derived_key.len # KeyLen
        THEN [success |-> FALSE, out |-> NoBytes]
        ELSE EVP_Decrypt(derived_key, master_key.encrypted_key)

(***************************************************************************)
(* decrypt_private_key                                                     *)
(***************************************************************************)
decrypt_private_key(master_key, crypted_key) ==
    IF master_key.len # KeyLen \/ crypted_key.encrypted_private_key.len < AESBlock
    THEN [success |-> FALSE, out |-> NoBytes]
    ELSE EVP_Decrypt(master_key, crypted_key.encrypted_private_key)

(***************************************************************************)
(* The registry: master_keys_ is a std::map keyed by string (the parser    *)
(* only ever uses the key "default"), crypted_keys_ a std::map keyed by    *)
(* to_string(size at insertion).  crypted_keys_ is modelled as a sequence: *)
(* entry i of the sequence is the entry with key to_string(i-1); with      *)
(* fewer than ten entries the map's iteration order is that of the         *)
(* sequence.                                                               *)
(***************************************************************************)
NoMasterKeys == [x \in {} |-> 0]
EmptyRegistry == [master_keys_ |-> NoMasterKeys, crypted_keys_ |-> <<>>]

(***************************************************************************)
(* parse_bdb_page: one 1024-byte window starting at offset.  ScanMarker    *)
(* is the body of the loop for one position i that holds a marker (head    *)
(* names the bytes right after the marker: the salt of an mkey, the public *)
(* key of a ckey; blob describes the bytes after those, see Capture); the  *)
(* positions of a page are visited in ascending order.                     *)
(***************************************************************************)
Capture(blob, len) ==
    [k |-> blob.k, pt |-> blob.pt, pad |-> blob.pad, collide |-> blob.collide,
     len |-> len]

ScanMarker(data, m, reg) ==
    LET key_start == m.pos + MarkerLen
    IN  IF m.tag = "mkey"
        THEN IF key_start + MKeyGuard < data.size
             THEN [reg EXCEPT !.master_keys_ =
                      "default" :> [salt |-> Bytes(m.head, SaltLen),
                                    encrypted_key |->
                                        Capture(m.blob, MKeyEnd - SaltLen),
                                    derive_iterations |-> DefaultIterations,
                                    derive_method |-> 0]]
             ELSE reg
        ELSE IF key_start + CKeyGuard < data.size
             THEN [reg EXCEPT !.crypted_keys_ =
                      Append(@, [public_key |-> Bytes(m.head, PubKeyLen),
                                 encrypted_private_key |->
                                     Capture(m.blob, CKeyEnd - PubKeyLen)])]
             ELSE reg

RECURSIVE ScanPage(_, _, _, _, _)
ScanPage(data, lo, hi, n, reg) ==
    IF n > Len(data.markers) THEN reg
    ELSE LET m == data.markers[n]
         IN  ScanPage(data, lo, hi, n + 1,
                      IF lo <= m.pos /\ m.pos < hi
                      THEN ScanMarker(data, m, reg) ELSE reg)

parse_bdb_page(data, offset, reg) ==
    IF offset + PageSize > data.size
    THEN [ret |-> FALSE, offset |-> offset, reg |-> reg]
    ELSE [ret |-> TRUE, offset |-> offset + PageSize,
          reg |-> ScanPage(data, offset,
                           Min(offset + PageSize, data.size - ScanTail), 1, reg)]

(***************************************************************************)
(* parse_bdb_file: header checks, then the page loop, which stops at the   *)
(* first page parse_bdb_page refuses.                                      *)
(***************************************************************************)
RECURSIVE PageLoop(_, _, _)
PageLoop(data, offset, reg) ==
    IF ~(offset < data.size) THEN reg
    ELSE Only({IF ~r.ret THEN r.reg ELSE PageLoop(data, r.offset, r.reg) :
                  r \in {parse_bdb_page(data, offset, reg)}})

RegistryOK(reg) ==
    DOMAIN reg.master_keys_ # {} /\ Len(reg.crypted_keys_) # 0

parse_bdb_file(data, reg) ==
    IF data.size < BDBHeaderSize
    THEN [ret |-> FALSE, reg |-> reg,
          err |-> "Wallet file too small to contain valid Berkeley DB header"]
    ELSE IF ~data.magic
    THEN [ret |-> FALSE, reg |-> reg, err |-> "Invalid Berkeley DB magic number"]
    ELSE Only({[ret |-> RegistryOK(r), reg |-> r, err |-> ""] :
                  r \in {PageLoop(data, 0, reg)}})

(***************************************************************************)
(* The wallet object and its environment.                                  *)
(***************************************************************************)
VARIABLES
    wallet_file,      \* the file on disk: [accessible, data]
    wallet_data_,     \* the raw buffer
    master_keys_,     \* registry: master-key records
    crypted_keys_,    \* registry: encrypted-key records
    loaded_,          \* the loaded flag
    last_error_,      \* WalletBase::last_error_
    ret,              \* the last completed call and what it returned
    load_calls,       \* number of load() calls made so far
    first_registry,   \* the registry as the first load() call left it
    pc,               \* concurrent callers: position of each thread
    local,            \* concurrent callers: locals of each thread
    calls,            \* concurrent callers: number of calls begun so far
    disk,             \* the output files: name -> what was written
    recovered_keys,   \* the key list the caller passes to the exports
    exported,         \* the last export call and what it returned
    unit,             \* a function run on its own: its name, inputs, result
    testnet_mode_,    \* the testnet flag
    logger            \* the Logger singleton and the two mutexes guarding it

wallet == <<wallet_data_, master_keys_, crypted_keys_, loaded_, last_error_>>
vars == <<wallet_file, wallet_data_, master_keys_, crypted_keys_, loaded_,
          last_error_, ret, load_calls, first_registry, pc, local, calls, unit,
          disk, recovered_keys, exported, testnet_mode_, logger>>
exports == <<disk, recovered_keys, exported>>

EmptyData == [size |-> 0, magic |-> FALSE, markers |-> <<>>]

This ==
    [wallet_data_ |-> wallet_data_, master_keys_ |-> master_keys_,
     crypted_keys_ |-> crypted_keys_, loaded_ |-> loaded_,
     last_error_ |-> last_error_]

Registry(w) == [master_keys_ |-> w.master_keys_, crypted_keys_ |-> w.crypted_keys_]

set_error(w, error) == [w EXCEPT !.last_error_ = error]

(***************************************************************************)
(* WalletBase::verify_file_access and WalletBase::read_file are declared   *)
(* in wallet_base.h; their bodies are not among the sources.               *)
(***************************************************************************)
verify_file_access(file) == file.accessible
read_file(file) == IF file.accessible THEN file.data ELSE EmptyData

(***************************************************************************)
(* load: returns the object after the call and the value returned.         *)
(***************************************************************************)
Parsed(w1, r) ==
    IF ~r.ret
    THEN [w |-> set_error([w1 EXCEPT !.master_keys_ = r.reg.master_keys_,
                                     !.crypted_keys_ = r.reg.crypted_keys_],
                          "Failed to parse wallet.dat file - invalid format"),
          ret |-> FALSE]
    ELSE [w |-> [w1 EXCEPT !.master_keys_ = r.reg.master_keys_,
                           !.crypted_keys_ = r.reg.crypted_keys_,
                           !.loaded_ = TRUE],
          ret |-> TRUE]

load(w, file) ==
    IF w.loaded_ THEN [w |-> w, ret |-> TRUE]
    ELSE IF ~verify_file_access(file)
    THEN [w |-> set_error(w, "Cannot access wallet file"), ret |-> FALSE]
    ELSE Only({IF w1.wallet_data_.size = 0
               THEN [w |-> set_error(w1, "Failed to read wallet file or file is empty"),
                     ret |-> FALSE]
               ELSE Only({Parsed(w1, r) :
                          r \in {parse_bdb_file(w1.wallet_data_, Registry(w1))}}) :
               w1 \in {[w EXCEPT !.wallet_data_ = read_file(file)]}})

(***************************************************************************)
(* The lazy load at the head of test_password and extract_private_keys:    *)
(* if (!loaded_ && !load()) return ...                                     *)
(***************************************************************************)
LazyLoad(w, file) ==
    IF w.loaded_ THEN [w |-> w, ret |-> TRUE, called |-> FALSE]
    ELSE Only({[w |-> r.w, ret |-> r.ret, called |-> TRUE] : r \in {load(w, file)}})

(***************************************************************************)
(* The trial itself: test_password once the container is loaded.           *)
(***************************************************************************)
\* a trial that records a failed attempt in last_error_
TryMasterKeysRecordingFailure(w, password) ==
    IF DOMAIN w.master_keys_ = {}
    THEN [w |-> set_error(w, "No master keys found in wallet"), ret |-> FALSE]
    ELSE IF \E name \in DOMAIN w.master_keys_ :
                decrypt_master_key(password, w.master_keys_[name]).success
    THEN [w |-> w, ret |-> TRUE]
    ELSE [w |-> set_error(w, "Invalid password"), ret |-> FALSE]

TryMasterKeys(w, password) ==
    IF DOMAIN w.master_keys_ = {}
    THEN [w |-> set_error(w, "No master keys found in wallet"), ret |-> FALSE]
    ELSE [w |-> w,
          ret |-> \E name \in DOMAIN w.master_keys_ :
                      decrypt_master_key(password, w.master_keys_[name]).success]

test_password(w, file, password) ==
    Only({IF ~l.ret THEN [w |-> l.w, ret |-> FALSE, called |-> l.called]
          ELSE Only({[w |-> t.w, ret |-> t.ret, called |-> l.called] :
                     t \in {TryMasterKeys(l.w, password)}}) :
          l \in {LazyLoad(w, file)}})

(***************************************************************************)
(* Key and address derivation, abstractly: each result is a token of the   *)
(* private key it comes from; the length checks of the code are kept.      *)
(***************************************************************************)
EmptyString == <<"", "", "", 0>>

private_key_to_public_key(private_key) ==
    IF private_key.len # 32 THEN NoBytes
    ELSE Bytes(<<"pub", private_key.val[2], "", 0>>, 65)

public_key_to_address(public_key, compressed) ==
    IF public_key.len = 0 THEN EmptyString
    ELSE <<"addr", public_key.val[2],
           IF compressed /\ public_key.len = 65 THEN "compressed" ELSE "uncompressed", 0>>

private_key_to_wif(private_key, compressed) ==
    IF private_key.len # 32 THEN EmptyString
    ELSE <<"wif", private_key.val[2],
           IF compressed THEN "compressed" ELSE "uncompressed", 0>>

(***************************************************************************)
(* extract_private_keys.  KeyInfos is the body of the loop for one record  *)
(* that decrypted: the compressed entry and, when the two addresses        *)
(* differ, the uncompressed one.  key_labels_ is never written by the      *)
(* code, so no label is ever found.                                        *)
(***************************************************************************)
\* the loop body adding the uncompressed entry without comparing addresses
KeyInfosAlwaysBoth(private_key_bytes) ==
    LET public_key == private_key_to_public_key(private_key_bytes)
        key_info == [address |-> public_key_to_address(public_key, TRUE),
                     private_key_hex |-> private_key_bytes,
                     private_key_wif |-> private_key_to_wif(private_key_bytes, TRUE),
                     public_key_hex |-> public_key,
                     compressed |-> TRUE,
                     label |-> "",
                     balance_satoshis |-> 0,
                     transaction_count |-> 0,
                     has_balance |-> FALSE]
    IN  <<key_info,
          [key_info EXCEPT !.address = public_key_to_address(public_key, FALSE),
                           !.compressed = FALSE,
                           !.private_key_wif =
                               private_key_to_wif(private_key_bytes, FALSE)]>>

KeyInfos(private_key_bytes) ==
    LET public_key == private_key_to_public_key(private_key_bytes)
        compressed_addr == public_key_to_address(public_key, TRUE)
        uncompressed_addr == public_key_to_address(public_key, FALSE)
        key_info == [address |-> compressed_addr,
                     private_key_hex |-> private_key_bytes,
                     private_key_wif |-> private_key_to_wif(private_key_bytes, TRUE),
                     public_key_hex |-> public_key,
                     compressed |-> TRUE,
                     label |-> "",
                     balance_satoshis |-> 0,
                     transaction_count |-> 0,
                     has_balance |-> FALSE]
    IN  IF compressed_addr # uncompressed_addr
        THEN <<key_info,
               [key_info EXCEPT !.address = uncompressed_addr,
                                !.compressed = FALSE,
                                !.private_key_wif =
                                    private_key_to_wif(private_key_bytes, FALSE)]>>
        ELSE <<key_info>>

RECURSIVE DecryptAll(_, _, _)
DecryptAll(master_key, crypted_keys, n) ==
    IF n > Len(crypted_keys) THEN <<>>
    ELSE Only({IF d.success THEN KeyInfos(d.out) ELSE <<>> :
               d \in {decrypt_private_key(master_key, crypted_keys[n])}})
         \o DecryptAll(master_key, crypted_keys, n + 1)

(***************************************************************************)
(* The first master-key record of the map that decrypts; the map holds at  *)
(* most the one key "default".                                             *)
(***************************************************************************)
Unlocking(w, password) ==
    {name \in DOMAIN w.master_keys_ :
        decrypt_master_key(password, w.master_keys_[name]).success}

\* log: the decryption calls of a run of extract_private_keys, in the order
\* they are made; an entry is <<function, map key, "", 1 if it returned true>>
MasterKeyCalls(w, password) ==
    IF DOMAIN w.master_keys_ = {} THEN <<>>
    ELSE <<<<"decrypt_master_key", "default", "",
             IF decrypt_master_key(password, w.master_keys_["default"]).success
             THEN 1 ELSE 0>>>>

PrivateKeyCalls(master_key, crypted_keys) ==
    [n \in 1..Len(crypted_keys) |->
        <<"decrypt_private_key", ToString(n - 1), "",
          IF decrypt_private_key(master_key, crypted_keys[n]).success THEN 1 ELSE 0>>]

\* extract_private_keys going on to the encrypted keys with an empty master
\* key when no record unlocks
ExtractedWithoutUnlocking(l, password) ==
    IF ~l.ret THEN [w |-> l.w, keys |-> <<>>, called |-> l.called, log |-> <<>>]
    ELSE Only({[w |-> l.w,
                keys |-> DecryptAll(master_key, l.w.crypted_keys_, 1),
                called |-> l.called,
                log |-> MasterKeyCalls(l.w, password)
                        \o PrivateKeyCalls(master_key, l.w.crypted_keys_)] :
               master_key \in
                 {IF Unlocking(l.w, password) = {} THEN NoBytes
                  ELSE decrypt_master_key(password,
                     l.w.master_keys_[CHOOSE x \in Unlocking(l.w, password) : TRUE]).out}})

Extracted(l, password) ==
    IF ~l.ret THEN [w |-> l.w, keys |-> <<>>, called |-> l.called, log |-> <<>>]
    ELSE IF Unlocking(l.w, password) = {}
    THEN [w |-> set_error(l.w, "Failed to decrypt master key with provided password"),
          keys |-> <<>>, called |-> l.called, log |-> MasterKeyCalls(l.w, password)]
    ELSE Only({[w |-> l.w,
                keys |-> DecryptAll(master_key, l.w.crypted_keys_, 1),
                called |-> l.called,
                log |-> MasterKeyCalls(l.w, password)
                        \o PrivateKeyCalls(master_key, l.w.crypted_keys_)] :
               master_key \in
                 {decrypt_master_key(password,
                     l.w.master_keys_[CHOOSE x \in Unlocking(l.w, password) : TRUE]).out}})

extract_private_keys(w, file, password) ==
    Only({Extracted(l, password) : l \in {LazyLoad(w, file)}})

(***************************************************************************)
(* The three provider queries.  A response is what the HTTP request gave:  *)
(*   http_ok : curl_easy_perform returned CURLE_OK with status 200         *)
(*   parses  : the body is well-formed JSON                                *)
(*   wrapper : the body has the object the provider nests its numbers in   *)
(*             (chain_stats for blockstream, data[address] for             *)
(*             blockchair; blockcypher has its numbers at the top level)   *)
(*   balance, tx_count : the provider's balance and transaction-count      *)
(*             members, each present with a value or absent                *)
(* balance and tx_count are 0 when a query starts (query_address_balance   *)
(* sets them, and a provider that fails does not write them).              *)
(***************************************************************************)
NoAnswer == [ok |-> FALSE, balance |-> 0, tx_count |-> 0]

Member(field) == IF field.present THEN field.value ELSE 0

query_blockstream_api(response) ==
    IF ~response.http_ok \/ ~response.parses THEN NoAnswer
    ELSE IF response.wrapper
    THEN [ok |-> TRUE, balance |-> Member(response.balance),
          tx_count |-> Member(response.tx_count)]
    ELSE NoAnswer

query_blockchair_api(response) ==
    IF ~response.http_ok \/ ~response.parses THEN NoAnswer
    ELSE IF response.wrapper
    THEN [ok |-> TRUE, balance |-> Member(response.balance),
          tx_count |-> Member(response.tx_count)]
    ELSE NoAnswer

query_blockcypher_api(response) ==
    IF ~response.http_ok \/ ~response.parses THEN NoAnswer
    ELSE [ok |-> TRUE, balance |-> Member(response.balance),
          tx_count |-> Member(response.tx_count)]

query_provider(provider, response) ==
    IF provider = "blockstream" THEN query_blockstream_api(response)
    ELSE IF provider = "blockchair" THEN query_blockchair_api(response)
    ELSE query_blockcypher_api(response)

(***************************************************************************)
(* check_balances.  net[i] is what the three providers answer, in the      *)
(* order blockstream, blockchair, blockcypher, for the address of key i.   *)
(***************************************************************************)
ProviderAnswers ==
    {[ok |-> FALSE, balance |-> 0, tx_count |-> 0],
     [ok |-> TRUE, balance |-> 0, tx_count |-> 0],
     [ok |-> TRUE, balance |-> 5, tx_count |-> 1]}

\* called: the providers query_address_balance calls, in the order of the
\* calls
Providers == <<"blockstream", "blockchair", "blockcypher">>

\* query_address_balance storing the answer of the last provider that succeeds
QueryEveryProvider(answers) ==
    [ok |-> \E k \in 1..3 : answers[k].ok,
     balance |-> IF answers[3].ok THEN answers[3].balance
                 ELSE IF answers[2].ok THEN answers[2].balance
                 ELSE IF answers[1].ok THEN answers[1].balance ELSE 0,
     tx_count |-> IF answers[3].ok THEN answers[3].tx_count
                  ELSE IF answers[2].ok THEN answers[2].tx_count
                  ELSE IF answers[1].ok THEN answers[1].tx_count ELSE 0,
     called |-> Providers]

query_address_balance(answers) ==
    IF answers[1].ok
    THEN [ok |-> TRUE, balance |-> answers[1].balance,
          tx_count |-> answers[1].tx_count, called |-> SubSeq(Providers, 1, 1)]
    ELSE IF answers[2].ok
    THEN [ok |-> TRUE, balance |-> answers[2].balance,
          tx_count |-> answers[2].tx_count, called |-> SubSeq(Providers, 1, 2)]
    ELSE IF answers[3].ok
    THEN [ok |-> TRUE, balance |-> answers[3].balance,
          tx_count |-> answers[3].tx_count, called |-> Providers]
    ELSE [ok |-> FALSE, balance |-> 0, tx_count |-> 0, called |-> Providers]

\* check_balances answering true only when no query failed
CheckBalancesNeedsEveryAddress(private_keys, net) ==
    LET q(i) == query_address_balance(net[i])
    IN  IF Len(private_keys) = 0
        THEN [keys |-> private_keys, ret |-> FALSE, called |-> <<>>]
        ELSE [keys |-> [i \in 1..Len(private_keys) |->
                          IF q(i).ok
                          THEN [private_keys[i] EXCEPT
                                   !.balance_satoshis = q(i).balance,
                                   !.transaction_count = q(i).tx_count,
                                   !.has_balance = (q(i).balance > 0)]
                          ELSE private_keys[i]],
              ret |-> \A i \in 1..Len(private_keys) : q(i).ok,
              called |-> [i \in 1..Len(private_keys) |-> q(i).called]]

(***************************************************************************)
(* The endpoints the constructor registers, and the endpoint each provider *)
(* query builds its URL from.  Requests lists the requests                 *)
(* query_address_balance issues for an address: one per provider called,   *)
(* in the order of the calls.                                              *)
(***************************************************************************)
api_endpoints_ ==
    [blockstream |-> "https://blockstream.info/api",
     blockchair |-> "https://api.blockchair.com/bitcoin",
     blockcypher |-> "https://api.blockcypher.com/v1/btc/main",
     blockstream_testnet |-> "https://blockstream.info/testnet/api",
     blockcypher_testnet |-> "https://api.blockcypher.com/v1/btc/test3"]

Endpoint(provider, testnet) ==
    IF provider = "blockstream"
    THEN IF testnet THEN api_endpoints_["blockstream_testnet"]
         ELSE api_endpoints_["blockstream"]
    ELSE IF provider = "blockchair" THEN api_endpoints_["blockchair"]
    ELSE IF testnet THEN api_endpoints_["blockcypher_testnet"]
         ELSE api_endpoints_["blockcypher"]

Requests(address, testnet, answers) ==
    Only({[i \in 1..Len(called) |->
              [provider |-> called[i], endpoint |-> Endpoint(called[i], testnet),
               address |-> address]] :
          called \in {query_address_balance(answers).called}})

\* check_balances raising has_balance on a positive balance and never
\* lowering it
CheckBalancesKeepsFlag(private_keys, net) ==
    LET q(i) == query_address_balance(net[i])
    IN  IF Len(private_keys) = 0
        THEN [keys |-> private_keys, ret |-> FALSE, called |-> <<>>]
        ELSE [keys |-> [i \in 1..Len(private_keys) |->
                          IF q(i).ok
                          THEN [private_keys[i] EXCEPT
                                   !.balance_satoshis = q(i).balance,
                                   !.transaction_count = q(i).tx_count,
                                   !.has_balance = (@ \/ q(i).balance > 0)]
                          ELSE private_keys[i]],
              ret |-> \E i \in 1..Len(private_keys) : q(i).ok,
              called |-> [i \in 1..Len(private_keys) |-> q(i).called]]

\* check_balances giving up at the first address no provider answers for
CheckBalancesStopsAtFailure(private_keys, net) ==
    LET q(i) == query_address_balance(net[i])
        reached(i) == \A j \in 1..(i - 1) : q(j).ok
    IN  IF Len(private_keys) = 0
        THEN [keys |-> private_keys, ret |-> FALSE, called |-> <<>>]
        ELSE [keys |-> [i \in 1..Len(private_keys) |->
                          IF reached(i) /\ q(i).ok
                          THEN [private_keys[i] EXCEPT
                                   !.balance_satoshis = q(i).balance,
                                   !.transaction_count = q(i).tx_count,
                                   !.has_balance = (q(i).balance > 0)]
                          ELSE private_keys[i]],
              ret |-> \E i \in 1..Len(private_keys) : reached(i) /\ q(i).ok,
              called |-> [i \in 1..Len(private_keys) |->
                            IF reached(i) THEN q(i).called ELSE <<>>]]

\* called[i]: the providers called for the address of key i
check_balances(private_keys, net) ==
    LET q(i) == query_address_balance(net[i])
        successful_queries == Cardinality({i \in 1..Len(private_keys) : q(i).ok})
    IN  IF Len(private_keys) = 0
        THEN [keys |-> private_keys, ret |-> FALSE, called |-> <<>>]
        ELSE [keys |-> [i \in 1..Len(private_keys) |->
                          IF q(i).ok
                          THEN [private_keys[i] EXCEPT
                                   !.balance_satoshis = q(i).balance,
                                   !.transaction_count = q(i).tx_count,
                                   !.has_balance = (q(i).balance > 0)]
                          ELSE private_keys[i]],
              ret |-> successful_queries > 0,
              called |-> [i \in 1..Len(private_keys) |-> q(i).called]]

RECURSIVE SumBalances(_, _)
SumBalances(keys, n) ==
    IF n = 0 THEN 0 ELSE keys[n].balance_satoshis + SumBalances(keys, n - 1)

(***************************************************************************)
(* recover_wallet                                                          *)
(***************************************************************************)
FailedResult(password) ==
    [success |-> FALSE, password |-> password, private_keys |-> <<>>,
     total_balance_satoshis |-> 0, total_addresses |-> 0, funded_addresses |-> 0]

\* recover_wallet giving up when the balance check fails
RecoveredAbortsOnBalanceFailure(password, t, e, c) ==
    IF ~t.ret \/ Len(e.keys) = 0 \/ ~c.ret
    THEN [w |-> set_error(t.w, "Invalid password provided"),
          result |-> [FailedResult(password) EXCEPT
                         !.private_keys = IF t.ret THEN e.keys ELSE <<>>,
                         !.total_addresses = IF t.ret THEN Len(e.keys) ELSE 0],
          called |-> t.called]
    ELSE [w |-> e.w,
          result |-> [FailedResult(password) EXCEPT
                         !.private_keys = c.keys,
                         !.total_addresses = Len(e.keys),
                         !.success = TRUE],
          called |-> t.called \/ e.called]

\* recover_wallet counting the private keys instead of the entries
RecoveredCountsPrivateKeys(password, t, e, c) ==
    IF ~t.ret
    THEN [w |-> set_error(t.w, "Invalid password provided"),
          result |-> FailedResult(password), called |-> t.called]
    ELSE IF Len(e.keys) = 0
    THEN [w |-> set_error(e.w, "No private keys could be extracted"),
          result |-> FailedResult(password), called |-> t.called \/ e.called]
    ELSE [w |-> e.w,
          result |->
              [FailedResult(password) EXCEPT
                  !.private_keys = c.keys,
                  !.total_addresses =
                      Cardinality({i \in 1..Len(e.keys) : e.keys[i].compressed}),
                  !.total_balance_satoshis =
                      IF c.ret THEN SumBalances(c.keys, Len(c.keys)) ELSE 0,
                  !.funded_addresses =
                      IF c.ret
                      THEN Cardinality({i \in 1..Len(c.keys) : c.keys[i].has_balance})
                      ELSE 0,
                  !.success = TRUE],
          called |-> t.called \/ e.called]

Recovered(password, t, e, c) ==
    IF ~t.ret
    THEN [w |-> set_error(t.w, "Invalid password provided"),
          result |-> FailedResult(password), called |-> t.called]
    ELSE IF Len(e.keys) = 0
    THEN [w |-> set_error(e.w, "No private keys could be extracted"),
          result |-> FailedResult(password), called |-> t.called \/ e.called]
    ELSE [w |-> e.w,
          result |->
              [FailedResult(password) EXCEPT
                  !.private_keys = c.keys,
                  !.total_addresses = Len(e.keys),
                  !.total_balance_satoshis =
                      IF c.ret THEN SumBalances(c.keys, Len(c.keys)) ELSE 0,
                  !.funded_addresses =
                      IF c.ret
                      THEN Cardinality({i \in 1..Len(c.keys) : c.keys[i].has_balance})
                      ELSE 0,
                  !.success = TRUE],
          called |-> t.called \/ e.called]

recover_wallet(w, file, password, net) ==
    Only({Only({Only({[log |-> e.log] @@ Recovered(password, t, e, c) :
                      c \in {check_balances(e.keys, net)}}) :
                e \in {IF t.ret THEN extract_private_keys(t.w, file, password)
                       ELSE [w |-> t.w, keys |-> <<>>, called |-> FALSE,
                             log |-> <<>>]}}) :
          t \in {test_password(w, file, password)}})

(***************************************************************************)
(* Base58, addresses and WIF strings on bytes.  A byte string is a         *)
(* sequence of numbers 0..255, a Base58 string a sequence of characters.   *)
(* SHA-256, RIPEMD-160 and the secp256k1 multiplication are stood in for   *)
(* by fixed functions of the bytes with the output length of the original. *)
(***************************************************************************)
Base58Radix == 58
ByteRadix == 256
ChecksumLen == 4
Hash160Len == 20
CompressedLen == 33
UncompressedLen == 65

base58_alphabet ==
    <<"1", "2", "3", "4", "5", "6", "7", "8", "9",
      "A", "B", "C", "D", "E", "F", "G", "H", "J", "K", "L", "M", "N",
      "P", "Q", "R", "S", "T", "U", "V", "W", "X", "Y", "Z",
      "a", "b", "c", "d", "e", "f", "g", "h", "i", "j", "k", "m", "n",
      "o", "p", "q", "r", "s", "t", "u", "v", "w", "x", "y", "z">>

\* the loop counting the leading zero bytes, from position i on
RECURSIVE LeadingZeros(_, _)
LeadingZeros(data, i) ==
    IF i > Len(data) \/ data[i] # 0 THEN 0 ELSE 1 + LeadingZeros(data, i + 1)

\* The loops below run over a range lo..hi of positions; a range of more
\* than one position is run as its lower half followed by its upper half.

\* while (carry > 0) { digits.push_back(carry % 58); carry /= 58; }
RECURSIVE PushCarry(_, _)
PushCarry(digits, carry) ==
    IF carry > 0
    THEN Only({PushCarry(d, c) : d \in {Append(digits, carry % Base58Radix)},
                                 c \in {carry \div Base58Radix}})
    ELSE digits

\* the body of the inner loop at digits[j]; st is <<digits, carry>>
DigitStep(st, j) ==
    <<[st[1] EXCEPT ![j] = (st[2] + st[1][j] * ByteRadix) % Base58Radix],
      (st[2] + st[1][j] * ByteRadix) \div Base58Radix>>

\* the inner loop for j in lo..hi
RECURSIVE DigitLoop(_, _, _)
DigitLoop(st, lo, hi) ==
    IF lo > hi THEN st
    ELSE IF lo = hi THEN DigitStep(st, lo)
    ELSE Only({DigitLoop(s, (lo + hi) \div 2 + 1, hi) :
               s \in {DigitLoop(st, lo, (lo + hi) \div 2)}})

\* the body of the outer loop for one byte: the inner loop, then the while
ByteStep(digits, byte) ==
    Only({PushCarry(st[1], st[2]) :
          st \in {DigitLoop(<<digits, byte>>, 1, Len(digits))}})

\* the outer loop for data[i], i in lo..hi
RECURSIVE Base58Digits(_, _, _, _)
Base58Digits(data, digits, lo, hi) ==
    IF lo > hi THEN digits
    ELSE IF lo = hi THEN ByteStep(digits, data[lo])
    ELSE Only({Base58Digits(data, d, (lo + hi) \div 2 + 1, hi) :
               d \in {Base58Digits(data, digits, lo, (lo + hi) \div 2)}})

\* base58_encode without the '1' characters of the leading zero bytes
Base58EncodeDropsZeros(data) ==
    Only({[k \in 1..Len(digits) |-> base58_alphabet[digits[Len(digits) + 1 - k] + 1]] :
          digits \in {Base58Digits(data, <<>>, LeadingZeros(data, 1) + 1, Len(data))}})

base58_encode(data) ==
    Only({[k \in 1..LeadingZeros(data, 1) |-> "1"]
          \o [k \in 1..Len(digits) |-> base58_alphabet[digits[Len(digits) + 1 - k] + 1]] :
          digits \in {Base58Digits(data, <<>>, LeadingZeros(data, 1) + 1, Len(data))}})

\* stand-in for the first 4 bytes of SHA256(SHA256(data))
RECURSIVE Mix(_, _, _, _)
Mix(data, h, lo, hi) ==
    IF lo > hi THEN h
    ELSE IF lo = hi THEN (h * 31 + data[lo] + lo) % 65521
    ELSE Only({Mix(data, g, (lo + hi) \div 2 + 1, hi) :
               g \in {Mix(data, h, lo, (lo + hi) \div 2)}})

Checksum(data) ==
    Only({<<h % ByteRadix, (h \div ByteRadix) % ByteRadix,
            (h * 7 + Len(data)) % ByteRadix, (h \div 16) % ByteRadix>> :
          h \in {Mix(data, 1, 1, Len(data))}})

\* stand-in for RIPEMD160(SHA256(data))
Hash160(data) ==
    [i \in 1..Hash160Len |-> (data[i + 1] + Len(data) - CompressedLen) % ByteRadix]

\* stand-in for the uncompressed point of a 32-byte private key: 0x04, X, Y
PublicKeyBytes(private_key) ==
    IF Len(private_key) # KeyLen THEN <<>>
    ELSE <<4>> \o private_key \o [i \in 1..KeyLen |-> private_key[KeyLen + 1 - i]]

\* public_key_to_address up to the call of base58_encode: version byte,
\* hash160, checksum
AddressDataChecksumOfHash(public_key, compressed, testnet) ==
    LET pub_key == IF compressed /\ Len(public_key) = UncompressedLen
                   THEN <<IF public_key[UncompressedLen] % 2 = 1 THEN 3 ELSE 2>>
                        \o SubSeq(public_key, 2, CompressedLen)
                   ELSE public_key
    IN  <<IF testnet THEN 111 ELSE 0>> \o Hash160(pub_key) \o Checksum(Hash160(pub_key))

AddressData(public_key, compressed, testnet) ==
    LET pub_key == IF compressed /\ Len(public_key) = UncompressedLen
                   THEN <<IF public_key[UncompressedLen] % 2 = 1 THEN 3 ELSE 2>>
                        \o SubSeq(public_key, 2, CompressedLen)
                   ELSE public_key
        address_data == <<IF testnet THEN 111 ELSE 0>> \o Hash160(pub_key)
    IN  address_data \o Checksum(address_data)

AddressString(public_key, compressed, testnet) ==
    IF Len(public_key) = 0 THEN <<>>
    ELSE base58_encode(AddressData(public_key, compressed, testnet))

\* private_key_to_wif up to the call of base58_encode: version byte, key,
\* 0x01 if compressed, checksum
WifDataAlwaysFlagged(private_key, compressed, testnet) ==
    LET wif_data == <<IF testnet THEN 239 ELSE 128>> \o private_key \o <<1>>
    IN  wif_data \o Checksum(wif_data)

WifData(private_key, compressed, testnet) ==
    LET wif_data == <<IF testnet THEN 239 ELSE 128>> \o private_key
                    \o (IF compressed THEN <<1>> ELSE <<>>)
    IN  wif_data \o Checksum(wif_data)

WifString(private_key, compressed, testnet) ==
    IF Len(private_key) # KeyLen THEN <<>>
    ELSE base58_encode(WifData(private_key, compressed, testnet))

(***************************************************************************)
(* The exports.  files maps each output file name to what was last written *)
(* to it; can_create is whether std::ofstream manages to open the file.    *)
(* A text is a sequence of atoms: a token stands for a run of characters   *)
(* that holds no comma and no double quote, Comma and Quote for the        *)
(* characters the CSV writer puts between them.                            *)
(***************************************************************************)
FileNames == {"recovery_results.txt", "electrum_import.json"}

NoFile == [format |-> "none", body |-> <<>>]

Atom(text) == <<"text", text, "", 0>>
Comma == <<",", "", "", 0>>
Quote == <<"quote", "", "", 0>>

\* operator<< of a std::string, of a hex string, of a bool through ?:, of
\* an integer
Text(token) == IF token = EmptyString THEN <<>> ELSE <<token>>
Hex(bytes) ==
    IF bytes.len = 0 THEN <<>> ELSE <<<<"hex", bytes.val[1], bytes.val[2], bytes.len>>>>
Bool(b) == <<Atom(IF b THEN "true" ELSE "false")>>
Number(n) == <<<<"int", "", "", n>>>>

\* the characters of a label
LabelText(label) ==
    IF label = "" THEN <<>>
    ELSE IF label = "a,b" THEN <<Atom("a"), Comma, Atom("b")>>
    ELSE <<Atom(label)>>

\* fixed notation with 8 decimals: digits and one '.'
format_balance(satoshis) == <<"btc", "", "", satoshis>>

CantCreate(w, files) ==
    [w |-> set_error(w, "Cannot create output file"), ret |-> FALSE, disk |-> files]

Written(w, files, filename, format, body) ==
    [w |-> w, ret |-> TRUE,
     disk |-> [files EXCEPT ![filename] = [format |-> format, body |-> body]]]

Summary(keys) ==
    [total_addresses |-> Len(keys), entries |-> keys,
     total_balance |-> format_balance(SumBalances(keys, Len(keys))),
     funded_count |-> Cardinality({i \in 1..Len(keys) : keys[i].has_balance})]

\* an export that removes the files written so far when it cannot create its own
ExportToTextRollsBack(w, keys, filename, files, can_create) ==
    IF ~can_create
    THEN CantCreate(w, [f \in DOMAIN files |-> NoFile])
    ELSE Written(w, files, filename, "text", Summary(keys))

export_to_text(w, keys, filename, files, can_create) ==
    IF ~can_create THEN CantCreate(w, files)
    ELSE Written(w, files, filename, "text", Summary(keys))

export_to_json(w, keys, filename, files, can_create) ==
    IF ~can_create THEN CantCreate(w, files)
    ELSE Written(w, files, filename, "json", Summary(keys))

CsvHeader ==
    "Address,Private_Key_WIF,Private_Key_Hex,Public_Key_Hex,Compressed,Label,Balance_BTC,Balance_Satoshis,Transaction_Count,Has_Balance"

CsvRow(key) ==
    Text(key.address) \o <<Comma>>
    \o Text(key.private_key_wif) \o <<Comma>>
    \o Hex(key.private_key_hex) \o <<Comma>>
    \o Hex(key.public_key_hex) \o <<Comma>>
    \o Bool(key.compressed) \o <<Comma>>
    \o <<Quote>> \o LabelText(key.label) \o <<Quote, Comma>>
    \o <<format_balance(key.balance_satoshis), Comma>>
    \o Number(key.balance_satoshis) \o <<Comma>>
    \o Number(key.transaction_count) \o <<Comma>>
    \o Bool(key.has_balance)

\* export_to_csv writing only the keys that have funds or transactions
ExportToCsvFundedOnly(w, keys, filename, files, can_create) ==
    IF ~can_create THEN CantCreate(w, files)
    ELSE Written(w, files, filename, "csv",
                 <<<<Atom(CsvHeader)>>>>
                 \o SelectSeq([i \in 1..Len(keys) |-> CsvRow(keys[i])],
                              LAMBDA row : row[Len(row)] = Atom("true")))

export_to_csv(w, keys, filename, files, can_create) ==
    IF ~can_create THEN CantCreate(w, files)
    ELSE Written(w, files, filename, "csv",
                 <<<<Atom(CsvHeader)>>>> \o [i \in 1..Len(keys) |-> CsvRow(keys[i])])

\* Json::Value: a default-constructed value is null; operator[] with a
\* member name turns null into an object and sets (or replaces) the member
JsonNull == [kind |-> "null", members |-> {}]

SetMember(value, name, member) ==
    [kind |-> "object",
     members |-> {m \in value.members : m.name # name}
                 \cup {[name |-> name, value |-> member]}]

\* the keypairs of every key of the list
KeypairsOfEveryKey(keys, n) ==
    [kind |-> "object",
     members |-> {[name |-> keys[i].address, value |-> keys[i].private_key_wif] :
                     i \in 1..n}]

RECURSIVE Keypairs(_, _)
Keypairs(keys, n) ==
    IF n = 0 THEN JsonNull
    ELSE Only({IF keys[n].has_balance \/ keys[n].transaction_count > 0
               THEN SetMember(prev, keys[n].address, keys[n].private_key_wif)
               ELSE prev :
               prev \in {Keypairs(keys, n - 1)}})

ElectrumDocument(keys) ==
    [keystore |-> [type |-> "imported", keypairs |-> Keypairs(keys, Len(keys))],
     wallet_type |-> "standard",
     use_encryption |-> FALSE]

export_to_electrum(w, keys, filename, files, can_create) ==
    IF ~can_create THEN CantCreate(w, files)
    ELSE Written(w, files, filename, "electrum", ElectrumDocument(keys))

NoExport ==
    [format |-> "none", filename |-> "", can_create |-> FALSE, ret |-> FALSE,
     failed_before |-> FALSE]

NothingExported ==
    /\ disk = [f \in FileNames |-> NoFile]
    /\ recovered_keys = <<>>
    /\ exported = NoExport

(***************************************************************************)
(* The wallet files the model is run on.  A file is built from a list of   *)
(* mkey records and a list of ckey records laid out one after the other    *)
(* from a base offset.  Every master-key blob encrypts the wallet's master *)
(* secret under the key derived from a password; every well-formed ckey    *)
(* blob encrypts a private key under the master secret.                    *)
(***************************************************************************)
TheSalt == <<"salt", "0102030405060708", "", 0>>
MasterSecret == <<"master", "", "", 0>>

MKey(password, iterations, pad, collide) ==
    [tag |-> "mkey", head |-> TheSalt,
     blob |-> [k |-> derive_key(password, Bytes(TheSalt, SaltLen), iterations).val,
               pt |-> MasterSecret, pad |-> pad, collide |-> collide]]

CKey(name, pad) ==
    [tag |-> "ckey", head |-> <<"pub", name, "", 0>>,
     blob |-> [k |-> MasterSecret, pt |-> <<"priv", name, "", 0>>,
               pad |-> pad, collide |-> {}]]

MKeyKinds ==
    {MKey("correct", DefaultIterations, 1, {}),
     MKey("correct", DefaultIterations, AESBlock, {}),
     MKey("correct", DefaultIterations, 1,
          {derive_key("wrong", Bytes(TheSalt, SaltLen), DefaultIterations).val}),
     MKey("other", DefaultIterations, 1, {}),
     MKey("correct", 2, 1, {})}

CKeyKinds == {CKey("good", 1), CKey("malformed", 0)}

Lists(kinds, max) == UNION {[1..n -> kinds] : n \in 0..max}

Layouts ==
    {[size |-> 2048, magic |-> TRUE,  base |-> 16,   stride |-> 100],
     [size |-> 2048, magic |-> FALSE, base |-> 16,   stride |-> 100],
     [size |-> 1000, magic |-> TRUE,  base |-> 16,   stride |-> 100],
     [size |-> 2560, magic |-> TRUE,  base |-> 1900, stride |-> 100]}

Container(layout, records) ==
    [size |-> layout.size, magic |-> layout.magic,
     markers |-> [j \in 1..Len(records) |->
                    [pos |-> layout.base + (j - 1) * layout.stride,
                     tag |-> records[j].tag, head |-> records[j].head,
                     blob |-> records[j].blob]]]

InBuffer(data) ==
    \A j \in 1..Len(data.markers) :
        data.markers[j].pos + MarkerLen + CKeyEnd <= data.size

Containers ==
    {c \in {Container(l, mks \o cks) :
               l \in Layouts, mks \in Lists(MKeyKinds, MaxMKeys),
               cks \in Lists(CKeyKinds, MaxCKeys)} : InBuffer(c)}

TinyData == [size |-> 8, magic |-> TRUE, markers |-> <<>>]

Files ==
    {[accessible |-> FALSE, data |-> EmptyData]}
    \cup {[accessible |-> TRUE, data |-> c] : c \in Containers \cup {EmptyData, TinyData}}

(***************************************************************************)
(* Sequential use of one wallet object: the state after construction and   *)
(* one action per public call.                                             *)
(***************************************************************************)
NoResult == FailedResult("")
NoRet == [op |-> "none", password |-> "", value |-> FALSE, result |-> NoResult]

\* Logger (src/src/utils/logger.cpp) before its first use: no instance, both
\* mutexes free (0; otherwise the thread holding it).  The instance is
\* created with current_level_ INFO and console_output_ true.
NoLogger ==
    [instance_ |-> FALSE, mutex_ |-> 0, log_mutex_ |-> 0,
     current_level_ |-> "info", console_output_ |-> TRUE]

Constructed ==
    /\ testnet_mode_ = FALSE
    /\ logger = NoLogger
    /\ wallet_data_ = EmptyData
    /\ master_keys_ = NoMasterKeys
    /\ crypted_keys_ = <<>>
    /\ loaded_ = FALSE
    /\ last_error_ = ""
    /\ ret = NoRet
    /\ load_calls = 0
    /\ first_registry = EmptyRegistry

Idle ==
    /\ pc = <<>>
    /\ local = <<>>
    /\ unit = [fn |-> "none"]
    /\ calls = 0
    /\ NothingExported

Init ==
    /\ wallet_file \in Files
    /\ Constructed
    /\ Idle

Becomes(w) ==
    /\ wallet_data_' = w.wallet_data_
    /\ master_keys_' = w.master_keys_
    /\ crypted_keys_' = w.crypted_keys_
    /\ loaded_' = w.loaded_
    /\ last_error_' = w.last_error_

CountLoad(called, w) ==
    /\ load_calls' = IF called THEN load_calls + 1 ELSE load_calls
    /\ first_registry' = IF called /\ load_calls = 0 THEN Registry(w)
                         ELSE first_registry

MayLoad == loaded_ \/ load_calls < MaxLoads

Load ==
    /\ load_calls < MaxLoads
    /\ \E r \in {load(This, wallet_file)} :
           /\ Becomes(r.w)
           /\ CountLoad(TRUE, r.w)
           /\ ret' = [op |-> "load", password |-> "", value |-> r.ret,
                      result |-> NoResult]
    /\ UNCHANGED <<wallet_file, testnet_mode_, logger, exports, pc, local, unit, calls>>

TestPassword ==
    /\ MayLoad
    /\ \E password \in Passwords :
         \E r \in {test_password(This, wallet_file, password)} :
             /\ Becomes(r.w)
             /\ CountLoad(r.called, r.w)
             /\ ret' = [op |-> "test_password", password |-> password,
                        value |-> r.ret, result |-> NoResult]
    /\ UNCHANGED <<wallet_file, testnet_mode_, logger, exports, pc, local, unit, calls>>

ExtractPrivateKeys ==
    /\ MayLoad
    /\ \E password \in Passwords :
         \E r \in {extract_private_keys(This, wallet_file, password)} :
             /\ Becomes(r.w)
             /\ CountLoad(r.called, r.w)
             /\ ret' = [op |-> "extract_private_keys", password |-> password,
                        value |-> Len(r.keys) > 0,
                        result |-> [NoResult EXCEPT !.private_keys = r.keys]]
    /\ UNCHANGED <<wallet_file, testnet_mode_, logger, exports, pc, local, unit, calls>>

RecoverWallet ==
    /\ MayLoad
    /\ \E password \in Passwords :
         \E n \in {Len(extract_private_keys(This, wallet_file, password).keys)} :
           \E net \in [1..n -> [1..3 -> ProviderAnswers]] :
             \E r \in {recover_wallet(This, wallet_file, password, net)} :
                   /\ Becomes(r.w)
                   /\ CountLoad(r.called, r.w)
                   /\ ret' = [op |-> "recover_wallet", password |-> password,
                              value |-> r.result.success, result |-> r.result]
    /\ UNCHANGED <<wallet_file, testnet_mode_, logger, exports, pc, local, unit, calls>>

Next == Load \/ TestPassword \/ ExtractPrivateKeys \/ RecoverWallet

Spec == Init /\ [][Next]_vars

(***************************************************************************)
(* Vocabulary of the properties.                                           *)
(***************************************************************************)
\* password p unlocks a master-key record of the registry
DecryptsUnder(p) ==
    \E name \in DOMAIN master_keys_ :
        decrypt_master_key(p, master_keys_[name]).success

\* p is the password a registry record was encrypted with (the key the code
\* derives from p is the key of the ciphertext, which carries valid padding)
IsCorrectFor(p, mk) ==
    /\ derive_key(p, mk.salt, mk.derive_iterations).val = mk.encrypted_key.k
    /\ mk.encrypted_key.pad \in 1..AESBlock

IsCorrect(p) ==
    \E name \in DOMAIN master_keys_ : IsCorrectFor(p, master_keys_[name])

\* an encrypted-key record that decrypts under the wallet's master secret
WellFormed(ck) ==
    /\ ck.encrypted_private_key.k = MasterSecret
    /\ ck.encrypted_private_key.pad \in 1..AESBlock
    /\ ck.encrypted_private_key.len >= AESBlock

NumWellFormed ==
    Cardinality({i \in 1..Len(crypted_keys_) : WellFormed(crypted_keys_[i])})

MKeyMarkers(data) == {j \in 1..Len(data.markers) : data.markers[j].tag = "mkey"}

\* the positions the page loop visits, and the markers there whose fields lie
\* inside the buffer
Visited(data, m) ==
    /\ m.pos < (data.size \div PageSize) * PageSize
    /\ m.pos < data.size - ScanTail
    /\ m.pos + MarkerLen + MKeyGuard < data.size

\* the master-key record the parser makes of marker m
AsMasterKey(m) ==
    [salt |-> Bytes(m.head, SaltLen),
     encrypted_key |-> Capture(m.blob, MKeyEnd - SaltLen),
     derive_iterations |-> DefaultIterations, derive_method |-> 0]

(***************************************************************************)
(* C1: for a loaded container whose master-key record decrypts under the   *)
(* password and that holds one (well-formed) encrypted-key record,         *)
(* recover_wallet returns success with total_addresses >= 1.               *)
(***************************************************************************)
C1_RecoverWalletSucceeds ==
    (/\ ret.op = "recover_wallet"
     /\ loaded_
     /\ IsCorrect(ret.password)
     /\ Len(crypted_keys_) = 1
     /\ WellFormed(crypted_keys_[1]))
    => (ret.result.success /\ ret.result.total_addresses >= 1)

(***************************************************************************)
(* C2: for a loaded container holding exactly one master-key record with a *)
(* correct password, test_password returns true for that password and      *)
(* false for every other password.                                         *)
(***************************************************************************)
C2_OnlyCorrectPassword ==
    \A correct \in Passwords :
        (/\ ret.op = "test_password"
         /\ loaded_
         /\ Cardinality(MKeyMarkers(wallet_data_)) = 1
         /\ IsCorrect(correct))
        => (ret.value = (ret.password = correct))

(***************************************************************************)
(* C3: test_password(p) returns true iff p unlocks at least one of the     *)
(* master-key records present in the container (here: the records at the   *)
(* positions the scan visits), not only the last one scanned.              *)
(***************************************************************************)
C3_AnyMasterKeyRecord ==
    (ret.op = "test_password" /\ loaded_)
    => (ret.value =
          \E j \in MKeyMarkers(wallet_data_) :
              /\ Visited(wallet_data_, wallet_data_.markers[j])
              /\ decrypt_master_key(ret.password,
                                    AsMasterKey(wallet_data_.markers[j])).success)

(***************************************************************************)
(* C4: whether or not the first call succeeded, the registry after two     *)
(* (or more) load() calls is the registry the first call left.             *)
(***************************************************************************)
C4_SecondLoadIsNoOp ==
    load_calls >= 2 => Registry(This) = first_registry

(***************************************************************************)
(* C7: for a buffer with a valid magic signature, load() fails only if the *)
(* scan produced no master-key record and no encrypted-key record.         *)
(***************************************************************************)
C7_LoadFailsOnlyIfEmpty ==
    (/\ ret.op = "load"
     /\ load_calls = 1
     /\ wallet_data_.size >= BDBHeaderSize
     /\ wallet_data_.magic
     /\ ~ret.value)
    => (DOMAIN master_keys_ = {} /\ Len(crypted_keys_) = 0)

(***************************************************************************)
(* C8: for a container with N well-formed encrypted-key records and one    *)
(* malformed record, recover_wallet with the correct password returns      *)
(* exactly N recovered keys (one compressed entry per recovered key).      *)
(***************************************************************************)
C8_MalformedRecordSkipped ==
    (/\ ret.op = "recover_wallet"
     /\ loaded_
     /\ IsCorrect(ret.password)
     /\ Len(crypted_keys_) = NumWellFormed + 1)
    => (Cardinality({i \in 1..Len(ret.result.private_keys) :
                        ret.result.private_keys[i].compressed}) = NumWellFormed)

(***************************************************************************)
(* C21: the iteration count a master-key record of the registry is derived *)
(* with is the count its container record was built with (the count in the *)
(* key token of its ciphertext), so that on a container with one           *)
(* master-key record test_password returns true for the password that      *)
(* record was encrypted with under its own count.                          *)
(***************************************************************************)
C21_StoredIterationsUsed ==
    /\ \A name \in DOMAIN master_keys_ :
         master_keys_[name].derive_iterations = master_keys_[name].encrypted_key.k[4]
    /\ (/\ ret.op = "test_password"
        /\ loaded_
        /\ Cardinality(MKeyMarkers(wallet_data_)) = 1
        /\ \E name \in DOMAIN master_keys_ :
             /\ master_keys_[name].encrypted_key.pad \in 1..AESBlock
             /\ master_keys_[name].encrypted_key.k =
                  derive_key(ret.password, master_keys_[name].salt,
                             master_keys_[name].encrypted_key.k[4]).val)
       => ret.value

(***************************************************************************)
(* C26: whenever decrypt_master_key succeeds on a master-key record of the *)
(* registry, the master key it outputs is exactly 32 bytes long, the       *)
(* length decrypt_private_key requires.                                    *)
(***************************************************************************)
C26_MasterKeyIs32Bytes ==
    \A password \in Passwords, name \in DOMAIN master_keys_ :
        \A d \in {decrypt_master_key(password, master_keys_[name])} :
            d.success => d.out.len = KeyLen

\* the markers of a tag whose fixed-length fields end inside the buffer
Complete(data, tag, end) ==
    {j \in 1..Len(data.markers) :
        /\ data.markers[j].tag = tag
        /\ data.markers[j].pos + MarkerLen + end <= data.size}

(***************************************************************************)
(* C22: after the first load() of a buffer that passes the header checks,  *)
(* whatever its length, every encrypted-key marker followed inside the     *)
(* buffer by its complete fields has its record in the registry, and the   *)
(* registry holds a master-key record when a master-key marker is followed *)
(* by its complete fields.                                                 *)
(***************************************************************************)
C22_ScanCoversBuffer ==
    (/\ ret.op = "load"
     /\ load_calls = 1
     /\ wallet_data_.size >= BDBHeaderSize
     /\ wallet_data_.magic)
    => /\ Len(crypted_keys_) >= Cardinality(Complete(wallet_data_, "ckey", CKeyEnd))
       /\ Complete(wallet_data_, "mkey", MKeyEnd) # {} => DOMAIN master_keys_ # {}

(***************************************************************************)
(* Functions run on their own, on inputs drawn from small sets.            *)
(*                                                                         *)
(* decrypt_private_key: on every master key of 16, 31 or 32 bytes and      *)
(* every encrypted-key record the parser can capture (ScanMarker on a ckey *)
(* marker whose ciphertext ends, under the master secret, in padding       *)
(* 0..16).                                                                 *)
(*                                                                         *)
(* The body of recover_wallet: on every outcome of test_password, on the   *)
(* key lists extract_private_keys builds (KeyInfos) from no private key or *)
(* one private key, and on every answer of the providers.                  *)
(*                                                                         *)
(* The body of the extraction loop for one decrypted private key           *)
(* (KeyInfos): on private keys of 32 bytes and of the lengths              *)
(* decrypt_private_key gives for a captured record.                        *)
(***************************************************************************)
UnitMasterKeys ==
    {Bytes(MasterSecret, n) : n \in {AESBlock, KeyLen - 1, KeyLen}}
    \cup {Bytes(Garbage, KeyLen)}

UnitBuffer == [size |-> PageSize, magic |-> TRUE, markers |-> <<>>]

UnitCryptedKeys ==
    {ScanMarker(UnitBuffer,
                [pos |-> BDBHeaderSize, tag |-> "ckey",
                 head |-> CKey("good", pad).head, blob |-> CKey("good", pad).blob],
                EmptyRegistry).crypted_keys_[1] : pad \in 0..AESBlock}

UnitKeyLists ==
    {<<>>} \cup {KeyInfos(Bytes(<<"priv", "good", "", 0>>, n)) : n \in {KeyLen - 1, KeyLen}}

InitUnits ==
    /\ wallet_file = [accessible |-> FALSE, data |-> EmptyData]
    /\ Constructed
    /\ Idle

DecryptPrivateKeyAlone ==
    /\ \E master_key \in UnitMasterKeys, crypted_key \in UnitCryptedKeys :
         unit' = [fn |-> "decrypt_private_key", master_key |-> master_key,
                  crypted_key |-> crypted_key,
                  out |-> decrypt_private_key(master_key, crypted_key)]
    /\ UNCHANGED <<wallet_file, testnet_mode_, logger, exports, wallet, ret, load_calls, first_registry, pc, local, calls>>

RecoverWalletAlone ==
    /\ \E password \in Passwords, t_ret \in BOOLEAN, keys \in UnitKeyLists :
         \E net \in [1..Len(keys) -> [1..3 -> ProviderAnswers]] :
           \E c \in {check_balances(keys, net)} :
             unit' = [fn |-> "recover_wallet", t_ret |-> t_ret, keys |-> keys,
                      balances_ok |-> c.ret,
                      result |-> Recovered(password,
                                           [w |-> This, ret |-> t_ret, called |-> FALSE],
                                           [w |-> This, keys |-> keys, called |-> FALSE],
                                           c).result]
    /\ UNCHANGED <<wallet_file, testnet_mode_, logger, exports, wallet, ret, load_calls, first_registry, pc, local, calls>>

UnitPrivateKeys ==
    {Bytes(<<"priv", name, "", 0>>, n) :
        name \in {"good", "other"}, n \in {AESBlock, KeyLen - 1, KeyLen}}

KeyInfosAlone ==
    /\ \E private_key_bytes \in UnitPrivateKeys :
         unit' = [fn |-> "key_infos", private_key_bytes |-> private_key_bytes,
                  keys |-> KeyInfos(private_key_bytes), log |-> <<>>]
    /\ UNCHANGED <<wallet_file, testnet_mode_, logger, exports, wallet, ret, load_calls, first_registry, pc, local, calls>>

NextUnits == DecryptPrivateKeyAlone \/ RecoverWalletAlone \/ KeyInfosAlone

SpecUnits == InitUnits /\ [][NextUnits]_vars

(***************************************************************************)
(* C9: every raw private key decrypt_private_key produces for an           *)
(* encrypted-key record captured by the parser is exactly 32 bytes long.   *)
(***************************************************************************)
C9_PrivateKeyIs32Bytes ==
    (unit.fn = "decrypt_private_key" /\ unit.out.success)
    => unit.out.out.len = 32

(***************************************************************************)
(* C10: recover_wallet returns success == false only together with an      *)
(* empty key list and total_addresses == 0, and returns success == true    *)
(* whenever at least one key was extracted, whatever check_balances        *)
(* returns.                                                                *)
(***************************************************************************)
C10_FailureIffNoKeys ==
    unit.fn = "recover_wallet"
    => /\ ~unit.result.success
          => (Len(unit.result.private_keys) = 0 /\ unit.result.total_addresses = 0)
       /\ (unit.t_ret /\ Len(unit.keys) > 0) => unit.result.success

\* a key was extracted, every provider failed for every address, and the
\* result is a success
C10_Witness ==
    /\ unit.fn = "recover_wallet"
    /\ unit.t_ret
    /\ Len(unit.keys) > 0
    /\ ~unit.balances_ok
    /\ unit.result.success
    /\ Len(unit.result.private_keys) = Len(unit.keys)

\* the sum of the balances of a key list, key by key
RECURSIVE TotalOf(_)
TotalOf(keys) ==
    IF keys = <<>> THEN 0 ELSE Head(keys).balance_satoshis + TotalOf(Tail(keys))

(***************************************************************************)
(* C27: every result recover_wallet returns, whatever the outcome, has     *)
(* total_addresses == number of keys, total_balance_satoshis == sum of the *)
(* keys' balance_satoshis and funded_addresses == number of keys with      *)
(* has_balance, hence funded_addresses <= total_addresses.                 *)
(***************************************************************************)
C27_TotalsMatchKeys ==
    unit.fn = "recover_wallet" =>
        /\ unit.result.total_addresses = Len(unit.result.private_keys)
        /\ unit.result.total_balance_satoshis = TotalOf(unit.result.private_keys)
        /\ unit.result.funded_addresses =
              Cardinality({i \in 1..Len(unit.result.private_keys) :
                              unit.result.private_keys[i].has_balance})
        /\ unit.result.funded_addresses <= unit.result.total_addresses

\* two entries, the balance check succeeded for one of them only
C27_Witness ==
    /\ unit.fn = "recover_wallet"
    /\ unit.result.success
    /\ unit.balances_ok
    /\ unit.result.total_addresses = 2
    /\ unit.result.funded_addresses = 1
    /\ unit.result.total_balance_satoshis = 5

(***************************************************************************)
(* C23: for a decrypted private key the extraction loop emits the          *)
(* compressed entry first and, right after it, an uncompressed entry       *)
(* exactly when the uncompressed address differs from the compressed one;  *)
(* the two entries have the same private_key_hex and differ in address,    *)
(* WIF and compressed flag; every entry starts with balance_satoshis 0,    *)
(* transaction_count 0 and has_balance false.                              *)
(***************************************************************************)
C23_CompressedThenUncompressed ==
    unit.fn = "key_infos" =>
        \A pub \in {private_key_to_public_key(unit.private_key_bytes)} :
            /\ Len(unit.keys) \in {1, 2}
            /\ unit.keys[1].compressed
            /\ unit.keys[1].address = public_key_to_address(pub, TRUE)
            /\ unit.keys[1].private_key_hex = unit.private_key_bytes
            /\ (Len(unit.keys) = 2) =
                  (public_key_to_address(pub, FALSE) # public_key_to_address(pub, TRUE))
            /\ Len(unit.keys) = 2 =>
                  /\ ~unit.keys[2].compressed
                  /\ unit.keys[2].address = public_key_to_address(pub, FALSE)
                  /\ unit.keys[2].address # unit.keys[1].address
                  /\ unit.keys[2].private_key_wif # unit.keys[1].private_key_wif
                  /\ unit.keys[2].private_key_hex = unit.keys[1].private_key_hex
            /\ \A i \in 1..Len(unit.keys) :
                  /\ unit.keys[i].balance_satoshis = 0
                  /\ unit.keys[i].transaction_count = 0
                  /\ ~unit.keys[i].has_balance

C23_Witness ==
    /\ unit.fn = "key_infos"
    /\ unit.private_key_bytes.len = KeyLen
    /\ Len(unit.keys) = 2
    /\ unit.keys[1].compressed
    /\ ~unit.keys[2].compressed

(***************************************************************************)
(* extract_private_keys and recover_wallet on a freshly constructed        *)
(* object, with the decryption calls of the run recorded in unit.          *)
(***************************************************************************)
InitExtract ==
    /\ wallet_file \in Files
    /\ Constructed
    /\ Idle

ExtractPrivateKeysLogged ==
    /\ MayLoad
    /\ \E password \in Passwords :
         \E r \in {extract_private_keys(This, wallet_file, password)} :
             /\ Becomes(r.w)
             /\ CountLoad(r.called, r.w)
             /\ ret' = [op |-> "extract_private_keys", password |-> password,
                        value |-> Len(r.keys) > 0,
                        result |-> [NoResult EXCEPT !.private_keys = r.keys]]
             /\ unit' = [fn |-> "extract_private_keys", log |-> r.log, keys |-> r.keys]
    /\ UNCHANGED <<wallet_file, testnet_mode_, logger, exports, pc, local, calls>>

RecoverWalletLogged ==
    /\ MayLoad
    /\ \E password \in Passwords :
         \E n \in {Len(extract_private_keys(This, wallet_file, password).keys)} :
           \E net \in [1..n -> [1..3 -> ProviderAnswers]] :
             \E r \in {recover_wallet(This, wallet_file, password, net)} :
                   /\ Becomes(r.w)
                   /\ CountLoad(r.called, r.w)
                   /\ ret' = [op |-> "recover_wallet", password |-> password,
                              value |-> r.result.success, result |-> r.result]
                   /\ unit' = [fn |-> "recover_wallet", log |-> r.log,
                               keys |-> r.result.private_keys]
    /\ UNCHANGED <<wallet_file, testnet_mode_, logger, exports, pc, local, calls>>

NextExtract == ExtractPrivateKeysLogged \/ RecoverWalletLogged

SpecExtract == InitExtract /\ [][NextExtract]_vars

\* the entries of a log that are calls of fn
CallsOf(log, fn) == {i \in 1..Len(log) : log[i][1] = fn}

(***************************************************************************)
(* C24: in a run of extract_private_keys or recover_wallet every call of   *)
(* decrypt_private_key comes after a call of decrypt_master_key that       *)
(* returned true; when no master-key record unlocks, decrypt_private_key   *)
(* is not called and no key is returned.                                   *)
(***************************************************************************)
C24_UnlockBeforeDecrypt ==
    unit.fn \in {"extract_private_keys", "recover_wallet"} =>
        /\ \A i \in CallsOf(unit.log, "decrypt_private_key") :
              \E j \in CallsOf(unit.log, "decrypt_master_key") :
                  j < i /\ unit.log[j][4] = 1
        /\ (\A j \in CallsOf(unit.log, "decrypt_master_key") : unit.log[j][4] = 0)
           => (CallsOf(unit.log, "decrypt_private_key") = {} /\ unit.keys = <<>>)

C24_Witness ==
    /\ unit.fn = "recover_wallet"
    /\ CallsOf(unit.log, "decrypt_private_key") # {}
    /\ unit.log[1] = <<"decrypt_master_key", "default", "", 1>>

(***************************************************************************)
(* check_balances run on its own: on key lists as extract_private_keys     *)
(* builds them, on a list holding a key whose balance fields an earlier    *)
(* check_balances has filled in, and on every answer of the providers.     *)
(***************************************************************************)
CheckedKey ==
    [KeyInfos(Bytes(<<"priv", "good", "", 0>>, KeyLen))[1] EXCEPT
        !.balance_satoshis = 7, !.transaction_count = 2, !.has_balance = TRUE]

BalanceKeyLists ==
    UnitKeyLists
    \cup {<<CheckedKey>>,
          <<CheckedKey>> \o KeyInfos(Bytes(<<"priv", "good", "", 0>>, KeyLen - 1))}

CheckBalancesAlone ==
    /\ \E keys \in BalanceKeyLists :
         \E net \in [1..Len(keys) -> [1..3 -> ProviderAnswers]] :
            unit' = [fn |-> "check_balances", keys |-> keys, net |-> net,
                     out |-> check_balances(keys, net)]
    /\ UNCHANGED <<wallet_file, testnet_mode_, logger, exports, wallet, ret, load_calls, first_registry, pc, local, calls>>

NextBalances == CheckBalancesAlone

SpecBalances == InitUnits /\ [][NextBalances]_vars

\* the first provider that answers for an address, 0 if none does
FirstOk(answers) ==
    IF \E k \in 1..3 : answers[k].ok
    THEN CHOOSE k \in 1..3 : answers[k].ok /\ \A j \in 1..(k - 1) : ~answers[j].ok
    ELSE 0

C12_TrueIffSomeAddressQueried ==
    unit.fn = "check_balances"
    => (unit.out.ret = \E i \in 1..Len(unit.keys) : FirstOk(unit.net[i]) # 0)

\* one address answered, the other not: true
C12_Witness ==
    /\ unit.fn = "check_balances"
    /\ Len(unit.keys) = 2
    /\ FirstOk(unit.net[1]) = 0
    /\ FirstOk(unit.net[2]) # 0
    /\ unit.out.ret

(***************************************************************************)
(* C13: when all three providers fail for an address, the balance fields   *)
(* of its key are left as they were, and every later address of the list   *)
(* is still queried.                                                       *)
(***************************************************************************)
C13_FailedAddressLeftAlone ==
    unit.fn = "check_balances"
    => \A i \in 1..Len(unit.keys) :
          FirstOk(unit.net[i]) = 0
          => /\ unit.out.keys[i] = unit.keys[i]
             /\ \A j \in (i + 1)..Len(unit.keys) :
                   /\ Len(unit.out.called[j]) > 0
                   /\ FirstOk(unit.net[j]) # 0
                      => unit.out.keys[j].balance_satoshis
                           = unit.net[j][FirstOk(unit.net[j])].balance

\* every provider fails for a first key that carries a balance, and the
\* second address is answered
C13_Witness ==
    /\ unit.fn = "check_balances"
    /\ Len(unit.keys) = 2
    /\ unit.keys[1].has_balance
    /\ FirstOk(unit.net[1]) = 0
    /\ unit.out.keys[1].balance_satoshis = 7
    /\ FirstOk(unit.net[2]) # 0
    /\ unit.out.keys[2].balance_satoshis = 5

(***************************************************************************)
(* One provider query on its own, on every response, and check_balances on *)
(* a one-key list for which only that provider is reached with an answer.  *)
(***************************************************************************)
Fields(values) ==
    {[present |-> FALSE, value |-> 0]} \cup {[present |-> TRUE, value |-> v] : v \in values}

Responses ==
    [http_ok : BOOLEAN, parses : BOOLEAN, wrapper : BOOLEAN,
     balance : Fields({0, 5}), tx_count : Fields({0, 1})]

QueryProviderAlone ==
    /\ \E k \in 1..3, response \in Responses :
         \E out \in {query_provider(Providers[k], response)} :
            unit' = [fn |-> "query_provider", provider |-> Providers[k],
                     response |-> response, out |-> out,
                     counted |->
                        check_balances(
                            KeyInfos(Bytes(<<"priv", "good", "", 0>>, KeyLen - 1)),
                            <<[j \in 1..3 |-> IF j = k THEN out ELSE NoAnswer]>>).ret]
    /\ UNCHANGED <<wallet_file, testnet_mode_, logger, exports, wallet, ret, load_calls, first_registry, pc, local, calls>>

NextProviders == QueryProviderAlone

SpecProviders == InitUnits /\ [][NextProviders]_vars

\* the parsed response holds the provider's balance structure
HasBalanceStructure(provider, response) ==
    /\ response.http_ok
    /\ response.parses
    /\ IF provider = "blockcypher" THEN response.balance.present ELSE response.wrapper

(***************************************************************************)
(* C28: a provider query reports success only if the parsed response holds *)
(* that provider's balance structure (chain_stats, data[address], a        *)
(* balance member); otherwise the query fails and the address is not       *)
(* counted as successfully queried on its account.                         *)
(***************************************************************************)
C28_SuccessNeedsBalanceStructure ==
    (unit.fn = "query_provider" /\ (unit.out.ok \/ unit.counted))
    => HasBalanceStructure(unit.provider, unit.response)

(***************************************************************************)
(* A caller holding a key list extract_private_keys built and passing it   *)
(* to check_balances again and again.  The answers of a call: any answers  *)
(* of the first two providers with the third failing, or the third         *)
(* answering after the first two failed.                                   *)
(***************************************************************************)
RecheckAnswers ==
    {answers \in [1..3 -> ProviderAnswers] :
        ~answers[3].ok \/ (~answers[1].ok /\ ~answers[2].ok)}

InitRecheck ==
    /\ wallet_file = [accessible |-> FALSE, data |-> EmptyData]
    /\ Constructed
    /\ pc = <<>>
    /\ local = <<>>
    /\ calls = 0
    /\ unit = [fn |-> "none"]
    /\ disk = [f \in FileNames |-> NoFile]
    /\ recovered_keys \in UnitKeyLists
    /\ exported = NoExport

CheckBalancesAgain ==
    /\ \E net \in [1..Len(recovered_keys) -> RecheckAnswers] :
         \E c \in {check_balances(recovered_keys, net)} :
            /\ recovered_keys' = c.keys
            /\ unit' = [fn |-> "check_balances", net |-> net, ret |-> c.ret]
    /\ UNCHANGED <<wallet_file, testnet_mode_, logger, wallet, ret, load_calls, first_registry, pc, local,
                   calls, disk, exported>>

NextRecheck == CheckBalancesAgain

SpecRecheck == InitRecheck /\ [][NextRecheck]_vars

(***************************************************************************)
(* C25: in every state of a key list built by extract_private_keys and     *)
(* passed through any number of check_balances calls, each key has         *)
(* has_balance == (balance_satoshis > 0).                                  *)
(***************************************************************************)
C25_HasBalanceIffPositive ==
    \A i \in 1..Len(recovered_keys) :
        recovered_keys[i].has_balance = (recovered_keys[i].balance_satoshis > 0)

\* the second key was found funded by an earlier call and no provider
\* answers for it in this one; the first key is found empty
C25_Witness ==
    /\ unit.fn = "check_balances"
    /\ Len(recovered_keys) = 2
    /\ query_address_balance(unit.net[1]).ok
    /\ ~recovered_keys[1].has_balance
    /\ ~query_address_balance(unit.net[2]).ok
    /\ recovered_keys[2].has_balance

(***************************************************************************)
(* The four exports called in any order on one key list, each call with    *)
(* any of the file names and with a file that can or cannot be created.    *)
(* The key lists: none, the two entries of one private key in each state   *)
(* check_balances can leave them in (not queried, funded, spent), a key    *)
(* with a label, and the entry of a private key that is not 32 bytes long. *)
(***************************************************************************)
Funded(key) ==
    [key EXCEPT !.balance_satoshis = 5, !.transaction_count = 1, !.has_balance = TRUE]

Spent(key) == [key EXCEPT !.transaction_count = 3]

States(key) == {key, Funded(key), Spent(key)}

ExportKeyLists ==
    {<<>>}
    \cup {<<a, b>> : a \in States(KeyInfos(Bytes(<<"priv", "good", "", 0>>, KeyLen))[1]),
                     b \in States(KeyInfos(Bytes(<<"priv", "good", "", 0>>, KeyLen))[2])}
    \cup {<<[Funded(KeyInfos(Bytes(<<"priv", "good", "", 0>>, KeyLen))[1])
               EXCEPT !.label = "a,b"]>>}
    \cup {<<a>> : a \in States(KeyInfos(Bytes(<<"priv", "good", "", 0>>, KeyLen - 1))[1])}

InitExport ==
    /\ wallet_file = [accessible |-> FALSE, data |-> EmptyData]
    /\ Constructed
    /\ pc = <<>>
    /\ local = <<>>
    /\ calls = 0
    /\ unit = [fn |-> "none"]
    /\ disk = [f \in FileNames |-> NoFile]
    /\ recovered_keys \in ExportKeyLists
    /\ exported = NoExport

Export(format, r, filename, can_create) ==
    /\ Becomes(r.w)
    /\ disk' = r.disk
    /\ recovered_keys' = recovered_keys
    /\ exported' = [format |-> format, filename |-> filename,
                    can_create |-> can_create, ret |-> r.ret,
                    failed_before |-> \/ exported.failed_before
                                      \/ exported.format # "none" /\ ~exported.ret]
    /\ UNCHANGED <<wallet_file, testnet_mode_, logger, ret, load_calls, first_registry, pc, local, calls, unit>>

ExportToText ==
    \E filename \in FileNames, can_create \in BOOLEAN :
      \E r \in {export_to_text(This, recovered_keys, filename, disk, can_create)} :
         Export("text", r, filename, can_create)

ExportToJson ==
    \E filename \in FileNames, can_create \in BOOLEAN :
      \E r \in {export_to_json(This, recovered_keys, filename, disk, can_create)} :
         Export("json", r, filename, can_create)

ExportToCsv ==
    \E filename \in FileNames, can_create \in BOOLEAN :
      \E r \in {export_to_csv(This, recovered_keys, filename, disk, can_create)} :
         Export("csv", r, filename, can_create)

ExportToElectrum ==
    \E filename \in FileNames, can_create \in BOOLEAN :
      \E r \in {export_to_electrum(This, recovered_keys, filename, disk, can_create)} :
         Export("electrum", r, filename, can_create)

NextExport == ExportToText \/ ExportToJson \/ ExportToCsv \/ ExportToElectrum

SpecExport == InitExport /\ [][NextExport]_vars

\* the keys an Electrum import file is to hold
Qualifying(keys) ==
    {i \in 1..Len(keys) : keys[i].has_balance \/ keys[i].transaction_count > 0}

(***************************************************************************)
(* C14: the keypairs of an Electrum file hold an entry address -> WIF for  *)
(* exactly the keys with has_balance or transaction_count > 0, and no      *)
(* entry for any other key.                                                *)
(***************************************************************************)
C14_OnlyUsedKeysExported ==
    \A f \in FileNames :
        disk[f].format = "electrum"
        => disk[f].body.keystore.keypairs.members
             = {[name |-> recovered_keys[i].address,
                 value |-> recovered_keys[i].private_key_wif] :
                   i \in Qualifying(recovered_keys)}

\* an Electrum file of a list with a key that has transactions but no
\* balance and a key that was never used
C14_Witness ==
    /\ Len(recovered_keys) = 2
    /\ Qualifying(recovered_keys) = {1}
    /\ ~recovered_keys[1].has_balance
    /\ disk["electrum_import.json"].format = "electrum"
    /\ Cardinality(disk["electrum_import.json"].body.keystore.keypairs.members) = 1

(***************************************************************************)
(* C15: every Electrum file, also one of a list in which no key qualifies, *)
(* has keystore.type "imported", an object as keystore.keypairs (the empty *)
(* object when no key qualifies), wallet_type "standard" and               *)
(* use_encryption false.                                                   *)
(***************************************************************************)
C15_ElectrumDocumentShape ==
    \A f \in FileNames :
        disk[f].format = "electrum"
        => /\ disk[f].body.keystore.type = "imported"
           /\ disk[f].body.keystore.keypairs.kind = "object"
           /\ disk[f].body.wallet_type = "standard"
           /\ disk[f].body.use_encryption = FALSE

\* the fields of a CSV line: the commas outside double quotes separate them
RECURSIVE CsvFields(_, _)
CsvFields(line, quoted) ==
    IF Len(line) = 0 THEN <<<<>>>>
    ELSE Only({IF Head(line) = Comma /\ ~quoted
               THEN <<<<>>>> \o rest
               ELSE <<<<Head(line)>> \o Head(rest)>> \o Tail(rest) :
               rest \in {CsvFields(Tail(line),
                                   IF Head(line) = Quote THEN ~quoted ELSE quoted)}})

C17_ExportsFailAlone ==
    [][/\ recovered_keys' = recovered_keys
       /\ exported'.ret = exported'.can_create
       /\ ~exported'.ret
          => \A f \in FileNames :
                /\ disk'[f].format = disk[f].format
                /\ disk'[f] = disk[f]]_vars

\* an export succeeded after an earlier one had failed, and the file written
\* before the failure is still there
C17_Witness ==
    /\ exported.failed_before
    /\ exported.ret
    /\ exported.format = "electrum"
    /\ exported.filename = "electrum_import.json"
    /\ disk["recovery_results.txt"].format = "text"

(***************************************************************************)
(* base58_encode, public_key_to_address and private_key_to_wif on their    *)
(* own, on bytes: one call on a freshly constructed object.  unit records   *)
(* the arguments and the string returned.                                  *)
(***************************************************************************)
MaxBytes == 2

ByteValues == {0, 1, 57, 58, 128, 255}
KeyEnds == {0, 1, 58, 255}

RECURSIVE BytesUpTo(_)
BytesUpTo(n) ==
    IF n = 0 THEN {<<>>}
    ELSE BytesUpTo(n - 1)
         \cup {Append(d, b) : d \in {x \in BytesUpTo(n - 1) : Len(x) = n - 1},
                              b \in ByteValues}

Base58Inputs == BytesUpTo(MaxBytes)

\* 32-byte private keys differing in the first two bytes and the last
PrivateKeys ==
    {[i \in 1..KeyLen |-> IF i = 1 THEN a ELSE IF i = 2 THEN b
                          ELSE IF i = KeyLen THEN c ELSE (17 * i) % ByteRadix] :
     a \in KeyEnds, b \in KeyEnds, c \in KeyEnds}

Base58EncodeAlone ==
    /\ unit.fn = "none"
    /\ \E data \in Base58Inputs :
         unit' = [fn |-> "base58_encode", data |-> data, out |-> base58_encode(data)]
    /\ UNCHANGED <<wallet_file, testnet_mode_, logger, exports, wallet, ret, load_calls, first_registry, pc, local, calls>>

PublicKeyToAddressAlone ==
    /\ unit.fn = "none"
    /\ \E private_key \in PrivateKeys, compressed \in BOOLEAN, testnet \in BOOLEAN :
         unit' = [fn |-> "public_key_to_address", private_key |-> private_key,
                  compressed |-> compressed, testnet |-> testnet,
                  out |-> AddressString(PublicKeyBytes(private_key), compressed, testnet)]
    /\ UNCHANGED <<wallet_file, testnet_mode_, logger, exports, wallet, ret, load_calls, first_registry, pc, local, calls>>

PrivateKeyToWifAlone ==
    /\ unit.fn = "none"
    /\ \E private_key \in PrivateKeys, compressed \in BOOLEAN, testnet \in BOOLEAN :
         unit' = [fn |-> "private_key_to_wif", private_key |-> private_key,
                  compressed |-> compressed, testnet |-> testnet,
                  out |-> WifString(private_key, compressed, testnet)]
    /\ UNCHANGED <<wallet_file, testnet_mode_, logger, exports, wallet, ret, load_calls, first_registry, pc, local, calls>>

NextEncode == Base58EncodeAlone \/ PublicKeyToAddressAlone \/ PrivateKeyToWifAlone

SpecEncode == InitUnits /\ [][NextEncode]_vars

(***************************************************************************)
(* enable_testnet and query_address_balance on one object.  The address    *)
(* queried is the compressed address of a private key, generated in the    *)
(* mode the object is in.                                                  *)
(***************************************************************************)
TestnetKey == CHOOSE k \in PrivateKeys : k[1] = 1 /\ k[2] = 58 /\ k[KeyLen] = 255

EnableTestnet ==
    /\ \E testnet \in BOOLEAN : testnet_mode_' = testnet
    /\ UNCHANGED <<wallet_file, logger, exports, wallet, ret, load_calls, first_registry, pc,
                   local, calls, unit>>

QueryAddressBalance ==
    /\ \E answers \in [1..3 -> ProviderAnswers] :
         \E address \in {AddressString(PublicKeyBytes(TestnetKey), TRUE, testnet_mode_)} :
            unit' = [fn |-> "query_address_balance", testnet |-> testnet_mode_,
                     address |-> address, answers |-> answers,
                     requests |-> Requests(address, testnet_mode_, answers)]
    /\ UNCHANGED <<wallet_file, testnet_mode_, logger, exports, wallet, ret, load_calls, first_registry, pc, local, calls>>

NextTestnet == EnableTestnet \/ QueryAddressBalance

SpecTestnet == InitUnits /\ [][NextTestnet]_vars

TestnetEndpoints ==
    {"https://blockstream.info/testnet/api", "https://api.blockcypher.com/v1/btc/test3"}

(***************************************************************************)
(* C29: every request query_address_balance issues while testnet mode is   *)
(* enabled goes to a testnet endpoint, whichever providers fail before it. *)
(***************************************************************************)
C29_TestnetStaysOnTestnet ==
    (unit.fn = "query_address_balance" /\ unit.testnet)
    => \A i \in 1..Len(unit.requests) : unit.requests[i].endpoint \in TestnetEndpoints

(***************************************************************************)
(* The decoders a reader of the strings applies.                           *)
(***************************************************************************)
\* the value of a Base58 character, its position in the alphabet
CharValue(c) == CHOOSE v \in 0..(Base58Radix - 1) : base58_alphabet[v + 1] = c

RECURSIVE LeadingOnes(_, _)
LeadingOnes(str, i) ==
    IF i > Len(str) \/ str[i] # "1" THEN 0 ELSE 1 + LeadingOnes(str, i + 1)

\* bytes, least significant first, times 58 plus carry: st is <<bytes, carry>>
TimesStep(st, j) ==
    <<[st[1] EXCEPT ![j] = (st[2] + st[1][j] * Base58Radix) % ByteRadix],
      (st[2] + st[1][j] * Base58Radix) \div ByteRadix>>

RECURSIVE TimesLoop(_, _, _)
TimesLoop(st, lo, hi) ==
    IF lo > hi THEN st
    ELSE IF lo = hi THEN TimesStep(st, lo)
    ELSE Only({TimesLoop(s, (lo + hi) \div 2 + 1, hi) :
               s \in {TimesLoop(st, lo, (lo + hi) \div 2)}})

TimesRadixPlus(bytes, digit) ==
    Only({IF st[2] = 0 THEN st[1] ELSE Append(st[1], st[2]) :
          st \in {TimesLoop(<<bytes, digit>>, 1, Len(bytes))}})

RECURSIVE DecodedBytes(_, _, _, _)
DecodedBytes(str, bytes, lo, hi) ==
    IF lo > hi THEN bytes
    ELSE IF lo = hi THEN TimesRadixPlus(bytes, CharValue(str[lo]))
    ELSE Only({DecodedBytes(str, d, (lo + hi) \div 2 + 1, hi) :
               d \in {DecodedBytes(str, bytes, lo, (lo + hi) \div 2)}})

base58_decode(str) ==
    Only({[k \in 1..LeadingOnes(str, 1) |-> 0]
          \o [k \in 1..Len(bytes) |-> bytes[Len(bytes) + 1 - k]] :
          bytes \in {DecodedBytes(str, <<>>, LeadingOnes(str, 1) + 1, Len(str))}})

\* Base58Check: the last four bytes are the checksum of the bytes before
base58check_decode(str) ==
    Only({IF Len(raw) <= ChecksumLen THEN [ok |-> FALSE, version |-> 0, payload |-> <<>>]
          ELSE [ok |-> SubSeq(raw, Len(raw) - ChecksumLen + 1, Len(raw))
                       = Checksum(SubSeq(raw, 1, Len(raw) - ChecksumLen)),
                version |-> raw[1],
                payload |-> SubSeq(raw, 2, Len(raw) - ChecksumLen)] :
          raw \in {base58_decode(str)}})

\* WIF: a Base58Check payload of the 32 key bytes, then 0x01 if compressed
wif_decode(str) ==
    Only({[ok |-> d.ok /\ (Len(d.payload) = KeyLen
                           \/ (Len(d.payload) = KeyLen + 1 /\ d.payload[KeyLen + 1] = 1)),
           version |-> d.version,
           key |-> SubSeq(d.payload, 1, Min(KeyLen, Len(d.payload))),
           compressed |-> Len(d.payload) = KeyLen + 1] :
          d \in {base58check_decode(str)}})

\* data with byte k replaced by another value
Altered(data, k, delta) == [data EXCEPT ![k] = (data[k] + delta) % ByteRadix]
Deltas == {1, 128, 255}

\* the number of zero bytes data starts with
ZeroPrefix(data) ==
    CHOOSE k \in 0..Len(data) :
        /\ \A i \in 1..k : data[i] = 0
        /\ k = Len(data) \/ data[k + 1] # 0

\* the integer a byte string is, most significant byte first
RECURSIVE IntegerOf(_)
IntegerOf(bytes) ==
    IF bytes = <<>> THEN 0
    ELSE IntegerOf(SubSeq(bytes, 1, Len(bytes) - 1)) * ByteRadix + bytes[Len(bytes)]

\* the base-58 digits of n, most significant first, none for 0
RECURSIVE DigitsOf(_)
DigitsOf(n) ==
    IF n = 0 THEN <<>> ELSE Append(DigitsOf(n \div Base58Radix), n % Base58Radix)

Base58Text(data) ==
    LET k == ZeroPrefix(data)
        digits == DigitsOf(IntegerOf(SubSeq(data, k + 1, Len(data))))
    IN  [i \in 1..k |-> "1"] \o [i \in 1..Len(digits) |-> base58_alphabet[digits[i] + 1]]

\* C20: base58_encode returns one '1' for each leading zero byte of its
\* input, followed by the base-58 digits, most significant first and without
\* a leading zero digit, of the big-endian integer the remaining bytes are;
\* no other byte sequence encodes to the same string.
C20_Base58EncodeIsPositional ==
    unit.fn = "base58_encode" =>
        /\ unit.out = Base58Text(unit.data)
        /\ \A other \in Base58Inputs :
             other # unit.data => base58_encode(other) # unit.out

C20_Witness ==
    /\ unit.fn = "base58_encode"
    /\ unit.data = <<0, 255>>
    /\ unit.out = <<"1", "5", "Q">>

\* C19: decoding the WIF string private_key_to_wif returns yields the 32 key
\* bytes and the compression flag it was given; the decoded bytes are the
\* version byte, the key, 0x01 only when compressed, and four checksum bytes.
C19_WifRoundTrip ==
    unit.fn = "private_key_to_wif" =>
        /\ \A d \in {wif_decode(unit.out)} :
             /\ d.ok
             /\ d.version = (IF unit.testnet THEN 239 ELSE 128)
             /\ d.key = unit.private_key
             /\ d.compressed = unit.compressed
        /\ \A raw \in {base58_decode(unit.out)} :
             /\ Len(raw) = 1 + KeyLen + (IF unit.compressed THEN 1 ELSE 0) + ChecksumLen
             /\ unit.compressed => raw[KeyLen + 2] = 1

C19_Witness ==
    /\ unit.fn = "private_key_to_wif"
    /\ ~unit.compressed
    /\ ~unit.testnet
    /\ unit.private_key[1] = 0
    /\ wif_decode(unit.out).key = unit.private_key

\* C18: Base58Check-decoding the address public_key_to_address returns for
\* the public key of a 32-byte private key recovers the version byte and the
\* hash160 the encoder used, and the decoder rejects the address data with
\* any one of its four checksum bytes changed.
C18_AddressRoundTrip ==
    unit.fn = "public_key_to_address" =>
        \A data \in {AddressData(PublicKeyBytes(unit.private_key),
                                 unit.compressed, unit.testnet)} :
            /\ \A d \in {base58check_decode(unit.out)} :
                 /\ d.ok
                 /\ d.version = (IF unit.testnet THEN 111 ELSE 0)
                 /\ d.version = data[1]
                 /\ d.payload = SubSeq(data, 2, 1 + Hash160Len)
            /\ \A k \in 1..ChecksumLen, delta \in Deltas :
                 ~base58check_decode(
                     base58_encode(Altered(data, 1 + Hash160Len + k, delta))).ok

C18_Witness ==
    /\ unit.fn = "public_key_to_address"
    /\ unit.compressed
    /\ ~unit.testnet
    /\ unit.private_key[1] = 0
    /\ unit.out[1] = "1"
    /\ unit.out[2] = "1"
    /\ base58check_decode(unit.out).ok

(***************************************************************************)
(* Several threads calling load() and test_password() on one wallet        *)
(* object.  The class has no mutex and no atomic: every read and write of  *)
(* a member is a step of its own, and steps of different threads           *)
(* interleave.  pc[t] is the statement thread t is at, local[t] its        *)
(* locals.  The interleavings below are the outcomes of the unsynchronised *)
(* accesses in which every single container operation stays intact.        *)
(***************************************************************************)
Threads == 1..NumThreads

ConcPasswords == {"correct", "wrong"}

ConcLayout == [size |-> 2048, magic |-> TRUE, base |-> 16, stride |-> 100]

ConcFiles ==
    {[accessible |-> TRUE, data |-> Container(ConcLayout, records)] :
        records \in {<<MKey("correct", DefaultIterations, 1, {}), CKey("good", 1)>>,
                     <<MKey("correct", DefaultIterations, 1, {}),
                       MKey("other", DefaultIterations, 1, {}), CKey("good", 1)>>,
                     <<CKey("good", 1)>>}}

NoCall ==
    [password |-> "", nested |-> FALSE, n |-> 1, id |-> 0, overlap |-> FALSE]

\* load() has returned true and no thread is inside the body of load()
Quiet ==
    /\ loaded_
    /\ \A t \in Threads : pc[t] \in {"idle", "tp_check", "ld_check", "tp_trial"}

InitConc ==
    /\ wallet_file \in ConcFiles
    /\ Constructed
    /\ unit = [fn |-> "none"]
    /\ calls = 0
    /\ pc = [t \in Threads |-> "idle"]
    /\ local = [t \in Threads |-> NoCall]
    /\ NothingExported

Begin(t, password, at) ==
    /\ pc[t] = "idle"
    /\ calls < MaxCalls
    /\ calls' = calls + 1
    /\ pc' = [pc EXCEPT ![t] = at]
    /\ local' = [local EXCEPT ![t] =
                    [NoCall EXCEPT !.password = password,
                                   !.overlap = Quiet /\ \E u \in Threads \ {t} :
                                                  pc[u] \in {"tp_check", "tp_trial"}]]
    /\ UNCHANGED <<wallet_file, testnet_mode_, logger, exports, wallet, ret, load_calls, first_registry, unit>>

CallLoad(t) == Begin(t, "", "ld_check")

CallTestPassword(t) ==
    \E password \in ConcPasswords : Begin(t, password, "tp_check")

\* the call of thread t returns value
Return(t, value) ==
    /\ pc' = [pc EXCEPT ![t] = "idle"]
    /\ local' = [local EXCEPT ![t] = NoCall]
    /\ ret' = [op |-> IF local[t].password = "" THEN "load" ELSE "test_password",
               password |-> local[t].password, value |-> value, result |-> NoResult]

\* load() returns value to its caller: to test_password if it was called
\* from there
LoadReturns(t, value) ==
    IF local[t].nested /\ value
    THEN /\ pc' = [pc EXCEPT ![t] = "tp_trial"]
         /\ local' = [local EXCEPT ![t].n = 1, ![t].id = 0]
         /\ ret' = ret
    ELSE Return(t, value)

\* test_password: if (!loaded_ && !load())
TpCheck(t) ==
    /\ pc[t] = "tp_check"
    /\ IF loaded_
       THEN /\ pc' = [pc EXCEPT ![t] = "tp_trial"]
            /\ local' = local
       ELSE /\ pc' = [pc EXCEPT ![t] = "ld_check"]
            /\ local' = [local EXCEPT ![t].nested = TRUE]
    /\ UNCHANGED <<wallet_file, testnet_mode_, logger, exports, wallet, ret, load_calls, first_registry, unit, calls>>

\* load: if (loaded_) return true;
LdCheck(t) ==
    /\ pc[t] = "ld_check"
    /\ IF loaded_
       THEN LoadReturns(t, TRUE)
       ELSE /\ pc' = [pc EXCEPT ![t] = "ld_read"]
            /\ local' = local
            /\ ret' = ret
    /\ UNCHANGED <<wallet_file, testnet_mode_, logger, exports, wallet, load_calls, first_registry, unit, calls>>

\* does the parser store a record for marker m of data
Stores(data, m) == ScanMarker(data, m, EmptyRegistry) # EmptyRegistry

\* the markers of the window [lo, hi), from the n-th on, that parse_bdb_page
\* stores a record for
RECURSIVE PageStores(_, _, _, _)
PageStores(data, lo, hi, n) ==
    IF n > Len(data.markers) THEN <<>>
    ELSE (IF lo <= data.markers[n].pos /\ data.markers[n].pos < hi
             /\ Stores(data, data.markers[n])
          THEN <<n>> ELSE <<>>)
         \o PageStores(data, lo, hi, n + 1)

\* the markers the page loop of parse_bdb_file stores a record for, in the
\* order it reaches them
RECURSIVE StoresFrom(_, _)
StoresFrom(data, offset) ==
    IF ~(offset < data.size) \/ offset + PageSize > data.size THEN <<>>
    ELSE PageStores(data, offset, Min(offset + PageSize, data.size - ScanTail), 1)
         \o StoresFrom(data, offset + PageSize)

\* where thread t goes after the n-th record of the page loop is done with
ScanOn(t, n) ==
    /\ pc' = [pc EXCEPT ![t] = IF n > Len(StoresFrom(wallet_data_', 0))
                               THEN "ld_finish" ELSE "ld_scan"]
    /\ local' = [local EXCEPT ![t].n = n]
    /\ ret' = ret

\* load: verify_file_access, wallet_data_ = read_file(...), the empty check,
\* the header checks of parse_bdb_file, and the page loop up to the first
\* record it stores
LdRead(t) ==
    /\ pc[t] = "ld_read"
    /\ IF ~verify_file_access(wallet_file)
       THEN /\ Becomes(set_error(This, "Cannot access wallet file"))
            /\ LoadReturns(t, FALSE)
       ELSE IF read_file(wallet_file).size = 0
       THEN /\ Becomes(set_error([This EXCEPT !.wallet_data_ = read_file(wallet_file)],
                                 "Failed to read wallet file or file is empty"))
            /\ LoadReturns(t, FALSE)
       ELSE IF read_file(wallet_file).size < BDBHeaderSize
               \/ ~read_file(wallet_file).magic
       THEN /\ Becomes(set_error([This EXCEPT !.wallet_data_ = read_file(wallet_file)],
                                 "Failed to parse wallet.dat file - invalid format"))
            /\ LoadReturns(t, FALSE)
       ELSE /\ Becomes([This EXCEPT !.wallet_data_ = read_file(wallet_file)])
            /\ ScanOn(t, 1)
    /\ UNCHANGED <<wallet_file, testnet_mode_, logger, exports, load_calls, first_registry, unit, calls>>

\* parse_bdb_page at a marker it stores a record for.  An mkey marker is one
\* assignment to master_keys_["default"]; a ckey marker first reads
\* crypted_keys_.size().
LdScan(t) ==
    /\ pc[t] = "ld_scan"
    /\ LET m == wallet_data_.markers[StoresFrom(wallet_data_, 0)[local[t].n]]
       IN  IF m.tag = "mkey"
           THEN /\ Becomes([This EXCEPT !.master_keys_ =
                              ScanMarker(wallet_data_, m, Registry(This)).master_keys_])
                /\ ScanOn(t, local[t].n + 1)
           ELSE /\ UNCHANGED wallet
                /\ pc' = [pc EXCEPT ![t] = "ld_insert"]
                /\ local' = [local EXCEPT ![t].id = Len(crypted_keys_)]
                /\ ret' = ret
    /\ UNCHANGED <<wallet_file, testnet_mode_, logger, exports, load_calls, first_registry, unit, calls>>

\* crypted_keys_[std::to_string(size)] = crypted_key, with the size read one
\* step earlier: an existing entry of that name is overwritten
LdInsert(t) ==
    /\ pc[t] = "ld_insert"
    /\ LET m == wallet_data_.markers[StoresFrom(wallet_data_, 0)[local[t].n]]
           crypted_key == ScanMarker(wallet_data_, m, EmptyRegistry).crypted_keys_[1]
       IN  Becomes([This EXCEPT !.crypted_keys_ =
                       IF local[t].id < Len(crypted_keys_)
                       THEN [crypted_keys_ EXCEPT ![local[t].id + 1] = crypted_key]
                       ELSE Append(crypted_keys_, crypted_key)])
    /\ ScanOn(t, local[t].n + 1)
    /\ UNCHANGED <<wallet_file, testnet_mode_, logger, exports, load_calls, first_registry, unit, calls>>

\* parse_bdb_file's return value, then set_error or loaded_ = true in load
LdFinish(t) ==
    /\ pc[t] = "ld_finish"
    /\ IF RegistryOK(Registry(This))
       THEN /\ Becomes([This EXCEPT !.loaded_ = TRUE])
            /\ LoadReturns(t, TRUE)
       ELSE /\ Becomes(set_error(This, "Failed to parse wallet.dat file - invalid format"))
            /\ LoadReturns(t, FALSE)
    /\ UNCHANGED <<wallet_file, testnet_mode_, logger, exports, load_calls, first_registry, unit, calls>>

\* test_password after the lazy load: the empty check and the trial loop
TpTrial(t) ==
    /\ pc[t] = "tp_trial"
    /\ \E r \in {TryMasterKeys(This, local[t].password)} :
           /\ Becomes(r.w)
           /\ Return(t, r.ret)
    /\ UNCHANGED <<wallet_file, testnet_mode_, logger, exports, load_calls, first_registry, unit, calls>>

NextConc ==
    \E t \in Threads :
        \/ CallLoad(t)
        \/ CallTestPassword(t)
        \/ TpCheck(t)
        \/ LdCheck(t)
        \/ LdRead(t)
        \/ LdScan(t)
        \/ LdInsert(t)
        \/ LdFinish(t)
        \/ TpTrial(t)

SpecConc == InitConc /\ [][NextConc]_vars

\* the wallet object right after construction
Fresh ==
    [wallet_data_ |-> EmptyData, master_keys_ |-> NoMasterKeys,
     crypted_keys_ |-> <<>>, loaded_ |-> FALSE, last_error_ |-> ""]

(***************************************************************************)
(* C5: if two or more threads call load() concurrently on the same object, *)
(* the registry ends with exactly the records of a single load(): once     *)
(* every call has returned and the container is loaded, the registry is    *)
(* the one a single load() of the file builds.                             *)
(***************************************************************************)
C5_ConcurrentLoadsLoadOnce ==
    (loaded_ /\ \A t \in Threads : pc[t] = "idle")
    => Registry(This) = Registry(load(Fresh, wallet_file).w)

(***************************************************************************)
(* C6: after a successful load(), concurrent test_password calls write no  *)
(* shared object state, and each call returns the result it would return   *)
(* when run alone.                                                         *)
(***************************************************************************)
C6_TrialsShareNothing ==
    [][Quiet =>
         /\ UNCHANGED wallet
         /\ \A t \in Threads :
               (pc[t] = "tp_trial" /\ pc'[t] = "idle")
               => ret'.value
                    = test_password(Fresh, wallet_file, local[t].password).ret]_vars

\* thread t began test_password after the load while another thread was
\* inside test_password and is still in flight; every other thread has
\* returned since, the last of them from a test_password that returned true
C6_Witness ==
    /\ Quiet
    /\ ret.op = "test_password"
    /\ ret.value
    /\ \E t \in Threads :
          /\ pc[t] = "tp_trial"
          /\ local[t].overlap
          /\ \A u \in Threads \ {t} : pc[u] = "idle"

(***************************************************************************)
(* Logger (src/src/utils/logger.cpp): threads calling initialize,          *)
(* set_level(string) and log.  pc[t] is where thread t is, local[t] the    *)
(* call it is in.  Both mutexes are std::mutex, which is not recursive: a  *)
(* thread that locks one it already holds has undefined behaviour.  The    *)
(* outcomes a build gives are all steps of the model: the thread blocks    *)
(* forever (a plain pthread mutex), the lock throws std::system_error (an  *)
(* error-checking mutex; unwinding releases the guard of the caller), or   *)
(* the lock goes through (a build whose mutex operations do nothing).      *)
(* Output is not part of the state.                                        *)
(***************************************************************************)
LogLevels == {"debug", "error"}

NoLogCall == [op |-> "none", level |-> "info", console |-> TRUE, nested |-> FALSE]

InitLogger ==
    /\ wallet_file = [accessible |-> FALSE, data |-> EmptyData]
    /\ Constructed
    /\ unit = [fn |-> "none"]
    /\ calls = 0
    /\ pc = [t \in Threads |-> "idle"]
    /\ local = [t \in Threads |-> NoLogCall]
    /\ NothingExported

LoggerIdle == <<wallet_file, testnet_mode_, exports, wallet, ret, load_calls,
                first_registry, unit>>

\* a thread enters a static member function; each of them starts with
\* get_instance()
LoggerCall(t, op, level, console) ==
    /\ pc[t] = "idle"
    /\ calls < MaxCalls
    /\ calls' = calls + 1
    /\ pc' = [pc EXCEPT ![t] = "get_instance"]
    /\ local' = [local EXCEPT ![t] = [op |-> op, level |-> level,
                                        console |-> console, nested |-> FALSE]]
    /\ UNCHANGED <<LoggerIdle, logger>>

CallInitialize(t) ==
    \E level \in LogLevels, console \in BOOLEAN : LoggerCall(t, "initialize", level, console)

CallSetLevel(t) == \E level \in LogLevels : LoggerCall(t, "set_level", level, TRUE)

CallLog(t) == \E level \in LogLevels : LoggerCall(t, "log", level, TRUE)

\* get_instance: lock mutex_, create the instance if there is none
GetInstance(t) ==
    /\ pc[t] = "get_instance"
    /\ logger.mutex_ = 0
    /\ logger' = [logger EXCEPT !.mutex_ = t, !.instance_ = TRUE]
    /\ pc' = [pc EXCEPT ![t] = "got_instance"]
    /\ UNCHANGED <<LoggerIdle, local, calls>>

\* get_instance returns: its guard releases mutex_
ReleaseInstance(t) ==
    /\ pc[t] = "got_instance"
    /\ logger' = [logger EXCEPT !.mutex_ = 0]
    /\ pc' = [pc EXCEPT ![t] = "lock"]
    /\ UNCHANGED <<LoggerIdle, local, calls>>

\* std::lock_guard<std::mutex> lock(logger.log_mutex_), the mutex being free
Lock(t) ==
    /\ pc[t] = "lock"
    /\ logger.log_mutex_ = 0
    /\ logger' = [logger EXCEPT !.log_mutex_ = t]
    /\ pc' = [pc EXCEPT ![t] = "locked"]
    /\ UNCHANGED <<LoggerIdle, local, calls>>

\* the same on a mutex the thread holds: it blocks forever
RelockBlocks(t) ==
    /\ pc[t] = "lock"
    /\ logger.log_mutex_ = t
    /\ pc' = [pc EXCEPT ![t] = "blocked"]
    /\ UNCHANGED <<LoggerIdle, logger, local, calls>>

\* ... or the lock throws, and the call ends with the exception
RelockThrows(t) ==
    /\ pc[t] = "lock"
    /\ logger.log_mutex_ = t
    /\ logger' = [logger EXCEPT !.log_mutex_ = 0]
    /\ pc' = [pc EXCEPT ![t] = "idle"]
    /\ local' = [local EXCEPT ![t] = NoLogCall]
    /\ UNCHANGED <<LoggerIdle, calls>>

\* ... or the lock goes through
RelockProceeds(t) ==
    /\ pc[t] = "lock"
    /\ logger.log_mutex_ = t
    /\ pc' = [pc EXCEPT ![t] = "locked"]
    /\ UNCHANGED <<LoggerIdle, logger, local, calls>>

\* initialize, holding log_mutex_: logger.set_level(level)
InitializeCallsSetLevel(t) ==
    /\ pc[t] = "locked"
    /\ local[t].op = "initialize"
    /\ ~local[t].nested
    /\ pc' = [pc EXCEPT ![t] = "get_instance"]
    /\ local' = [local EXCEPT ![t].nested = TRUE]
    /\ UNCHANGED <<LoggerIdle, logger, calls>>

\* set_level(string), holding log_mutex_: the assignment, then its guard
\* releases the mutex; called from initialize it returns into initialize
SetLevelBody(t) ==
    /\ pc[t] = "locked"
    /\ local[t].op = "set_level" \/ local[t].nested
    /\ logger' = [logger EXCEPT !.current_level_ = local[t].level, !.log_mutex_ = 0]
    /\ pc' = [pc EXCEPT ![t] = IF local[t].nested THEN "rest" ELSE "idle"]
    /\ local' = [local EXCEPT ![t] = IF local[t].nested THEN [@ EXCEPT !.nested = FALSE]
                                     ELSE NoLogCall]
    /\ UNCHANGED <<LoggerIdle, calls>>

\* the rest of initialize; its guard then unlocks a mutex the thread no
\* longer holds, which releases it or does nothing
InitializeRest(t) ==
    /\ pc[t] = "rest"
    /\ \E m \in {0, logger.log_mutex_} :
          logger' = [logger EXCEPT !.console_output_ = local[t].console,
                                    !.log_mutex_ = m]
    /\ pc' = [pc EXCEPT ![t] = "idle"]
    /\ local' = [local EXCEPT ![t] = NoLogCall]
    /\ UNCHANGED <<LoggerIdle, calls>>

\* write_log, holding log_mutex_: the message is written or filtered out
WriteLog(t) ==
    /\ pc[t] = "locked"
    /\ local[t].op = "log"
    /\ logger' = [logger EXCEPT !.log_mutex_ = 0]
    /\ pc' = [pc EXCEPT ![t] = "idle"]
    /\ local' = [local EXCEPT ![t] = NoLogCall]
    /\ UNCHANGED <<LoggerIdle, calls>>

LoggerStep(t) ==
    \/ GetInstance(t) \/ ReleaseInstance(t) \/ Lock(t)
    \/ RelockBlocks(t) \/ RelockThrows(t) \/ RelockProceeds(t)
    \/ InitializeCallsSetLevel(t) \/ SetLevelBody(t) \/ InitializeRest(t)
    \/ WriteLog(t)

NextLogger ==
    \/ \E t \in Threads : CallInitialize(t)
    \/ \E t \in Threads : CallSetLevel(t)
    \/ \E t \in Threads : CallLog(t)
    \/ \E t \in Threads : GetInstance(t)
    \/ \E t \in Threads : ReleaseInstance(t)
    \/ \E t \in Threads : Lock(t)
    \/ \E t \in Threads : RelockBlocks(t)
    \/ \E t \in Threads : RelockThrows(t)
    \/ \E t \in Threads : RelockProceeds(t)
    \/ \E t \in Threads : InitializeCallsSetLevel(t)
    \/ \E t \in Threads : SetLevelBody(t)
    \/ \E t \in Threads : InitializeRest(t)
    \/ \E t \in Threads : WriteLog(t)

\* every thread that can take a step of a call it is in eventually takes one
SpecLogger ==
    /\ InitLogger
    /\ [][NextLogger]_vars
    /\ \A t \in Threads : WF_vars(LoggerStep(t))

(***************************************************************************)
(* C30: every call of Logger::initialize, and every concurrent call of     *)
(* set_level and log, eventually returns: a thread inside a call is        *)
(* eventually outside it again.                                            *)
(***************************************************************************)
C30_EveryCallReturns ==
    \A t \in Threads : (pc[t] # "idle") ~> (pc[t] = "idle")

====
